---- MODULE Spec2Model ----
(***************************************************************************)
(* Model of the builder agent of agent-factory and the services under it:  *)
(*   builder_agent/builder_agent.py            invoke_agent (tracker reset)*)
(*   builder_agent/tools/create_gateway.py     create_gateway              *)
(*   builder_agent/tools/deploy_agent.py       deploy_agent                *)
(*   builder_agent/tools/create_lambda_tools.py  create_lambda_tools       *)
(*   services/lambda_service.py                create_tool_function        *)
(*   services/a2a_service.py                   A2AConnectionService        *)
(*   utils/validation.py                       sanitizers, validators      *)
(*                                                                         *)
(* Python strings are sequences of one-character strings.  The control     *)
(* plane (gateways, runtimes, functions, identity) is the environment:     *)
(* every call to it either answers or raises, chosen nondeterministically. *)
(*                                                                         *)
(* Spec and SpecConcurrent run the session tools, SpecTools one batch of   *)
(* create_lambda_tools, SpecA2A the calls of add_connection, SpecSanitize  *)
(* the sanitizers on one name, SpecSynth the code generator of the lambda   *)
(* service on one handler fragment.                                        *)
(***************************************************************************)
EXTENDS Integers, Sequences, FiniteSets, TLC

(***************************************************************************)
(* Bounds of the model.                                                    *)
(***************************************************************************)
\* top-level invocations of the hosting process
NumInvocations == 2
\* elements of a tools_spec array
MaxBatch == 3
\* characters of a short name given to a sanitizer
MaxNameLen == 2
\* lines of a logic-only handler fragment
MaxFragmentLines == 2

(***************************************************************************)
(* Python values.                                                          *)
(***************************************************************************)
\* Python None: a one-element sequence whose element is no character, so it
\* differs from every string, the empty string included.
None == <<"None">>

\* Python truthiness of an Optional[str] / Optional[list]: None and the empty
\* sequence are falsy.
Truthy(x) == x # None /\ x # <<>>

LowerCase == {"a","b","c","d","e","f","g","h","i","j","k","l","m",
              "n","o","p","q","r","s","t","u","v","w","x","y","z"}
UpperCase == {"A","B","C","D","E","F","G","H","I","J","K","L","M",
              "N","O","P","Q","R","S","T","U","V","W","X","Y","Z"}
Digits == {"0","1","2","3","4","5","6","7","8","9"}
Letters == LowerCase \cup UpperCase
AlphaNum == Letters \cup Digits

\* re.sub(r'[^<keep>]', rep, s) with a one-character replacement
ReSubOutside(s, keep, rep) ==
    [i \in 1..Len(s) |-> IF s[i] \in keep THEN s[i] ELSE rep]

\* re.sub(r'c+', 'c', s): of every run of c one is kept
Collapse(s, c) ==
    LET marked == [i \in 1..Len(s) |->
                      [char |-> s[i],
                       keep |-> ~ (s[i] = c /\ i < Len(s) /\ s[i + 1] = c)]]
        kept == SelectSeq(marked, LAMBDA m : m.keep)
    IN  [i \in 1..Len(kept) |-> kept[i].char]

\* s.lstrip(c)
LStrip(s, c) ==
    LET others == {i \in 1..Len(s) : s[i] # c}
    IN  IF others = {} THEN <<>>
        ELSE SubSeq(s, CHOOSE i \in others : \A j \in others : i <= j, Len(s))

\* s.rstrip(c)
RStrip(s, c) ==
    LET others == {i \in 1..Len(s) : s[i] # c}
    IN  IF others = {} THEN <<>>
        ELSE SubSeq(s, 1, CHOOSE i \in others : \A j \in others : i >= j)

\* s.strip(c)
Strip(s, c) == RStrip(LStrip(s, c), c)

\* s[:n]
Prefix(s, n) == SubSeq(s, 1, IF Len(s) < n THEN Len(s) ELSE n)

\* sep.join(parts)
RECURSIVE Join(_, _)
Join(sep, parts) ==
    IF parts = <<>> THEN <<>>
    ELSE IF Len(parts) = 1 THEN parts[1]
    ELSE parts[1] \o sep \o Join(sep, Tail(parts))

\* `word in msg`, a message being a sequence of fragments
Contains(msg, word) == \E i \in 1..Len(msg) : msg[i] = word

\* s.lower(), on the ASCII letters
LowerOf(c) ==
    CASE c = "A" -> "a" [] c = "B" -> "b" [] c = "C" -> "c" [] c = "D" -> "d"
      [] c = "E" -> "e" [] c = "F" -> "f" [] c = "G" -> "g" [] c = "H" -> "h"
      [] c = "I" -> "i" [] c = "J" -> "j" [] c = "K" -> "k" [] c = "L" -> "l"
      [] c = "M" -> "m" [] c = "N" -> "n" [] c = "O" -> "o" [] c = "P" -> "p"
      [] c = "Q" -> "q" [] c = "R" -> "r" [] c = "S" -> "s" [] c = "T" -> "t"
      [] c = "U" -> "u" [] c = "V" -> "v" [] c = "W" -> "w" [] c = "X" -> "x"
      [] c = "Y" -> "y" [] c = "Z" -> "z" [] OTHER -> c
Lower(s) == [i \in 1..Len(s) |-> LowerOf(s[i])]

\* s.replace(a, b) for one-character a and b
Replace(s, a, b) == [i \in 1..Len(s) |-> IF s[i] = a THEN b ELSE s[i]]

\* re.sub(r'[^<keep>]', '', s)
ReSubRemove(s, keep) == SelectSeq(s, LAMBDA c : c \in keep)

(***************************************************************************)
(* utils/validation.py                                                     *)
(***************************************************************************)
RuntimeMaxLength == 48
GatewayMaxLength == 48

\* faulty variant: the name is cut to the cap before the prefix is added
sanitize_runtime_name_CutFirst(name) ==
    LET s1 == ReSubOutside(name, AlphaNum, "_")
        s2 == Collapse(s1, "_")
        s3 == Strip(s2, "_")
        s4 == IF Len(s3) > RuntimeMaxLength
              THEN RStrip(Prefix(s3, RuntimeMaxLength), "_") ELSE s3
        s5 == IF s4 # <<>> /\ s4[1] \notin Letters
              THEN <<"a","g","e","n","t","_">> \o s4 ELSE s4
    IN  IF s5 = <<>> THEN <<"a","g","e","n","t">> ELSE s5

sanitize_runtime_name(name) ==
    LET s1 == ReSubOutside(name, AlphaNum, "_")
        s2 == Collapse(s1, "_")
        s3 == Strip(s2, "_")
        s4 == IF s3 # <<>> /\ s3[1] \notin Letters
              THEN <<"a","g","e","n","t","_">> \o s3 ELSE s3
        s5 == IF Len(s4) > RuntimeMaxLength
              THEN RStrip(Prefix(s4, RuntimeMaxLength), "_") ELSE s4
    IN  IF s5 = <<>> THEN <<"a","g","e","n","t">> ELSE s5

sanitize_gateway_name(name) ==
    LET s1 == ReSubOutside(name, AlphaNum \cup {"-"}, "-")
        s2 == Collapse(s1, "-")
        s3 == Strip(s2, "-")
        s4 == IF s3 # <<>> /\ s3[1] \notin AlphaNum
              THEN <<"g","w","-">> \o LStrip(s3, "-") ELSE s3
        s5 == IF Len(s4) > GatewayMaxLength
              THEN RStrip(Prefix(s4, GatewayMaxLength), "-") ELSE s4
    IN  IF s5 = <<>> THEN <<"g","a","t","e","w","a","y">> ELSE s5

AwsMaxLength == 63
MemoryMaxLength == 48
TargetMaxLength == 100

sanitize_aws_name(name) ==
    LET s1 == Lower(name)
        s2 == Replace(Replace(s1, " ", "-"), "_", "-")
        s3 == ReSubRemove(s2, LowerCase \cup Digits \cup {"-"})
        s4 == Collapse(s3, "-")
        s5 == IF s4 # <<>> /\ s4[1] \notin Letters THEN <<"a","-">> \o s4 ELSE s4
        s6 == Strip(s5, "-")
        s7 == IF Len(s6) > AwsMaxLength
              THEN RStrip(Prefix(s6, AwsMaxLength), "-") ELSE s6
    IN  IF s7 = <<>> THEN <<"a","g","e","n","t">> ELSE s7

sanitize_memory_name(name) ==
    LET s1 == Lower(name)
        s2 == Replace(Replace(s1, " ", "_"), "-", "_")
        s3 == ReSubRemove(s2, LowerCase \cup Digits \cup {"_"})
        s4 == Collapse(s3, "_")
        s5 == IF s4 # <<>> /\ s4[1] \notin Letters THEN <<"a","_">> \o s4 ELSE s4
        s6 == Strip(s5, "_")
        s7 == IF Len(s6) > MemoryMaxLength
              THEN RStrip(Prefix(s6, MemoryMaxLength), "_") ELSE s6
    IN  IF s7 = <<>>
        THEN <<"a","g","e","n","t","_","m","e","m","o","r","y">> ELSE s7

sanitize_gateway_target_name(name) ==
    LET s1 == ReSubOutside(name, AlphaNum \cup {"-"}, "-")
        s2 == Collapse(s1, "-")
        s3 == Strip(s2, "-")
        s4 == IF Len(s3) > TargetMaxLength
              THEN RStrip(Prefix(s3, TargetMaxLength), "-") ELSE s3
    IN  IF s4 = <<>> THEN <<"t","o","o","l">> ELSE s4

\* str.isalpha() on the characters of the model: the ASCII letters and the
\* letter outside ASCII
IsAlpha(c) == c \in Letters \cup {"é"}

\* lines 265-333: validate_agent_name with its default min_length 1 and
\* max_length 63; the message of the ValidationError it raises, None when it
\* returns True
AgentNameMinLength == 1
AgentNameMaxLength == 63
validate_agent_name(name) ==
    IF name = <<>> THEN <<"Agent name cannot be empty">>
    ELSE IF Len(name) < AgentNameMinLength
    THEN <<"Agent name must be at least ", "min_length", " characters long">>
    ELSE IF Len(name) > AgentNameMaxLength
    THEN <<"Agent name must be at most ", "max_length", " characters long">>
    ELSE IF ~ IsAlpha(name[1])
    THEN <<"Agent name must start with a letter, got ", name[1]>>
    ELSE IF name[Len(name)] = "-"
    THEN <<"Agent name cannot end with a hyphen">>
    ELSE IF \E i \in 1..Len(name) : name[i] \notin AlphaNum \cup {"-"}
    THEN <<"Agent name contains invalid characters">>
    ELSE IF \E i \in 1..(Len(name) - 1) : name[i] = "-" /\ name[i + 1] = "-"
    THEN <<"Agent name cannot contain consecutive hyphens">>
    ELSE None

\* lines 648-737: validate_tool_schema returns True (it raises otherwise). A
\* schema is its type, the set of its properties (name and type of each) and
\* its required list.
ValidPropertyTypes ==
    {"string", "number", "integer", "boolean", "array", "object", "null"}
validate_tool_schema(schema) ==
    /\ schema.type = "object"
    /\ schema.properties # {}
    /\ \A p \in schema.properties : p.type \in ValidPropertyTypes
    /\ \A r \in 1..Len(schema.required) :
           \E p \in schema.properties : p.name = schema.required[r]

(***************************************************************************)
(* services/lambda_service.py: LambdaService._generate_lambda_code         *)
(*                                                                         *)
(* A source text is the sequence of its lines and a line the sequence of   *)
(* its tokens: a word, a quote, a punctuation mark or a run of spaces.     *)
(* The texts of the model are written so that every word the generator     *)
(* searches for is a token or a run of tokens, and is part of no other     *)
(* token.                                                                  *)
(***************************************************************************)
\* the runs of spaces and how wide each is
WhitespaceTokens == {" ", "  ", "    ", "        ", "            "}
WsWidth(t) ==
    CASE t = " " -> 1 [] t = "  " -> 2 [] t = "    " -> 4
      [] t = "        " -> 8 [] t = "            " -> 12

\* not line.strip(): the line holds nothing but spaces
BlankLine(line) == \A i \in 1..Len(line) : line[i] \in WhitespaceTokens

\* the first index from i on that holds no run of spaces (Len + 1 if none)
SkipWs(line, i) ==
    LET rest == {j \in i..Len(line) : line[j] \notin WhitespaceTokens}
    IN  IF rest = {} THEN Len(line) + 1
        ELSE CHOOSE j \in rest : \A h \in rest : j <= h

\* line.strip()
StripLine(line) ==
    LET solid == {j \in 1..Len(line) : line[j] \notin WhitespaceTokens}
    IN  IF solid = {} THEN <<>>
        ELSE SubSeq(line, CHOOSE j \in solid : \A h \in solid : j <= h,
                          CHOOSE j \in solid : \A h \in solid : j >= h)

\* the width of the indentation of a line
RECURSIVE Indentation(_)
Indentation(line) ==
    IF line = <<>> \/ line[1] \notin WhitespaceTokens THEN 0
    ELSE WsWidth(line[1]) + Indentation(Tail(line))

\* line.lstrip() and line.rstrip()
LStripLine(line) == SubSeq(line, SkipWs(line, 1), Len(line))
RStripLine(line) == SubSeq(line, 1, Len(line) - (Len(LStripLine(line)) - Len(StripLine(line))))

\* text.strip(): the blank lines at the two ends go, and so do the spaces
\* before the first word and after the last
StripText(text) ==
    LET solid == {k \in 1..Len(text) : ~ BlankLine(text[k])}
        first == CHOOSE k \in solid : \A h \in solid : k <= h
        last == CHOOSE k \in solid : \A h \in solid : k >= h
        cut == SubSeq(text, first, last)
    IN  IF solid = {} THEN <<>>
        ELSE [k \in 1..Len(cut) |->
                 LET left == IF k = 1 THEN LStripLine(cut[k]) ELSE cut[k]
                 IN  IF k = Len(cut) THEN RStripLine(left) ELSE left]

\* `word in text` for a word that holds no line break: some line holds the
\* tokens of the word in a row
Mentions(text, word) ==
    \E k \in 1..Len(text) :
        \E i \in 1..(Len(text[k]) - Len(word) + 1) :
            SubSeq(text[k], i, i + Len(word) - 1) = word

\* `word in text.lower()` for the one-token words of line 170 and 174
LowerToken(t) == IF t = "DynamoDB" THEN "dynamodb" ELSE t
MentionsLower(text, word) ==
    Mentions([k \in 1..Len(text) |->
                 [i \in 1..Len(text[k]) |-> LowerToken(text[k][i])]], word)

\* the tokens that match [\w\.]+ : the module names of the model
ModuleNames == {"json", "logging", "os", "sys", "boto3", "datetime", "decimal"}

\* line 180: ^\s*import\s+[\w\.]+\s*$ matches the line
SingleImport(line) ==
    LET s == StripLine(line)
    IN  /\ Len(s) = 3
        /\ s[1] = "import" /\ s[2] \in WhitespaceTokens /\ s[3] \in ModuleNames

\* line 181: ^\s*from\s+[\w\.]+\s+import\s+.+$ matches the line
FromImport(line) ==
    LET s == StripLine(line)
    IN  /\ Len(s) >= 7
        /\ s[1] = "from" /\ s[2] \in WhitespaceTokens /\ s[3] \in ModuleNames
        /\ s[4] \in WhitespaceTokens /\ s[5] = "import" /\ s[6] \in WhitespaceTokens

\* re.sub(pattern, '', text, flags=re.MULTILINE) for a pattern that begins with
\* ^\s* and matches the lines numbered in `hits`: each such line is emptied,
\* and the blank lines right before it go with it, since \s matches a line
\* break too; so do the blank lines right after it when the pattern ends
\* with \s*$ (`trailing`), and not when it ends with .+$
RemoveLines(text, hits, trailing) ==
    LET Absorbed(k) ==
            /\ k \notin hits
            /\ \E h \in hits :
                   \/ k < h /\ \A m \in k..(h - 1) : BlankLine(text[m]) /\ m \notin hits
                   \/ /\ trailing
                      /\ k > h
                      /\ \A m \in (h + 1)..k : BlankLine(text[m]) /\ m \notin hits
        keep == {k \in 1..Len(text) : ~ Absorbed(k)}
        Nth(n) == CHOOSE k \in keep : Cardinality({h \in keep : h <= k}) = n
    IN  [n \in 1..Cardinality(keep) |->
            IF Nth(n) \in hits THEN <<>> ELSE text[Nth(n)]]

\* lines 180-184: the import lines the two patterns match are removed, the
\* lines of spaces go, the empty lines at the top go (a text with no other
\* line is left as one empty line)
StripImports(text) ==
    LET single == RemoveLines(text, {k \in 1..Len(text) : SingleImport(text[k])}, TRUE)
        removed == RemoveLines(single, {k \in 1..Len(single) : FromImport(single[k])}, FALSE)
        kept == SelectSeq(removed, LAMBDA line : ~ BlankLine(line) \/ line = <<>>)
        solid == {k \in 1..Len(kept) : kept[k] # <<>>}
    IN  IF solid = {} THEN << <<>> >>
        ELSE SubSeq(kept, CHOOSE k \in solid : \A h \in solid : k <= h, Len(kept))

\* line 190
NumericFields ==
    <<"amount", "price", "cost", "total", "quantity", "days", "hours", "count",
      "value", "balance">>

Quotes == {"'", "\""}
\* the tokens that hold a closing parenthesis
ClosingTokens == {")", "})", ")))"}

\* line 195: where the match of the pattern that begins at token i ends (0 if
\* the pattern does not match there), and the index of its parameters.get(
\*   (['"])field\1 \s*:\s* parameters\.get\( (['"])field\2 (,\s*[^)]+)? \)
GetAt(line, i, field) ==
    LET colon == SkipWs(line, i + 3)
    IN  IF /\ i + 2 <= Len(line)
           /\ line[i] \in Quotes /\ line[i + 1] = field /\ line[i + 2] = line[i]
           /\ colon <= Len(line)
           /\ line[colon] = ":"
        THEN SkipWs(line, colon + 1) ELSE 0
MatchEnd(line, i, field) ==
    LET get == GetAt(line, i, field)
        after == get + 4
        closing == {j \in (after + 1)..Len(line) : line[j] \in ClosingTokens}
        close == CHOOSE j \in closing : \A h \in closing : j <= h
    IN  IF ~ ( /\ get > 0
               /\ after <= Len(line)
               /\ line[get] = "parameters.get("
               /\ line[get + 1] \in Quotes /\ line[get + 2] = field
               /\ line[get + 3] = line[get + 1] )
        THEN 0
        ELSE IF line[after] = ")" THEN after
        ELSE IF /\ line[after] = ","
                /\ closing # {}
                /\ line[close] = ")"
                /\ close >= after + 2
        THEN close
        ELSE 0

\* lines 197-201: what replace_with_decimal returns for the match from i to end
replace_with_decimal(line, i, end, field) ==
    LET get == GetAt(line, i, field)
    IN  <<line[i], field, line[i], ":", " ", "Decimal(str(">>
            \o SubSeq(line, get, end - 1) \o <<")))">>

\* line 203: re.sub(pattern, replace_with_decimal, line) for one field, from
\* token i on
RECURSIVE SubDecimal(_, _, _)
SubDecimal(line, i, field) ==
    IF i > Len(line) THEN <<>>
    ELSE LET end == MatchEnd(line, i, field)
         IN  IF end > 0
             THEN replace_with_decimal(line, i, end, field)
                      \o SubDecimal(line, end + 1, field)
             ELSE <<line[i]>> \o SubDecimal(line, i + 1, field)

\* lines 191-203: the loop over the numeric fields, from field f on
RECURSIVE WrapNumericFields(_, _)
WrapNumericFields(text, f) ==
    IF f > Len(NumericFields) THEN text
    ELSE WrapNumericFields(
             [k \in 1..Len(text) |-> SubDecimal(text[k], 1, NumericFields[f])],
             f + 1)

\* line 206: textwrap.indent(text, prefix): the prefix goes before every line
\* that holds more than spaces
Indent(text, prefix) ==
    [k \in 1..Len(text) |->
        IF BlankLine(text[k]) THEN text[k] ELSE <<prefix>> \o text[k]]

\* the words the generator searches for
DefHandler == <<"def", " ", "handler">>
DefLambdaHandler == <<"def", " ", "lambda_handler">>
ImportJson == <<"import", " ", "json">>
ImportLogging == <<"import", " ", "logging">>

\* line 159: the block put before a complete handler
ImportBlock ==
    << ImportJson, ImportLogging, <<>>,
       <<"logger = logging.getLogger()">>, <<"logger.setLevel(logging.INFO)">>,
       <<>> >>

\* line 167
NoImplementation == << <<"pass", "  ", "# No implementation provided">> >>

\* faulty variant: a store write alone does not ask for the exact-decimal type
NeedsDecimal_NoPutItem(text) ==
    Mentions(text, <<"Decimal">>) \/ MentionsLower(text, <<"dynamodb">>)
\* line 174
NeedsDecimal(text) ==
    \/ Mentions(text, <<"Decimal">>)
    \/ MentionsLower(text, <<"dynamodb">>)
    \/ Mentions(text, <<"put_item">>)

\* lines 170-172, 209-217: the import list
Imports(text) ==
    << ImportJson, ImportLogging >>
    \o (IF Mentions(text, <<"boto3">>) \/ MentionsLower(text, <<"dynamodb">>)
        THEN << <<"import", " ", "boto3">> >> ELSE <<>>)
    \o (IF Mentions(text, <<"datetime">>)
        THEN << <<"from", " ", "datetime", " ", "import", " ", "datetime">> >>
        ELSE <<>>)
    \o (IF Mentions(text, <<"os.environ">>) \/ Mentions(text, <<"os.getenv">>)
        THEN << <<"import", " ", "os">> >> ELSE <<>>)
    \o (IF NeedsDecimal(text)
        THEN << <<"from", " ", "decimal", " ", "import", " ", "Decimal">> >>
        ELSE <<>>)

\* lines 222-244: the skeleton around the indented logic; the tool name is
\* written into the docstring and the log line
Skeleton(name, handler_code_indented) ==
    << <<>>,
       <<"logger = logging.getLogger()">>,
       <<"logger.setLevel(logging.INFO)">>,
       <<>>,
       <<"def", " ", "handler", "(", "event", ",", " ", "context", ")", ":">>,
       <<"    ", "\"\"\"Lambda handler for ">> \o name \o <<" tool\"\"\"">>,
       <<"    ", "try", ":">>,
       <<"        ", "logger.info(f\"Tool ">> \o name
           \o <<" invoked with event: {json.dumps(event)}\")">>,
       <<"        ">>,
       <<"        ", "# Extract parameters">>,
       <<"        ", "parameters = event.get('parameters', event)">>,
       <<"        ">>,
       <<"        ", "# Execute tool logic">> >>
    \o handler_code_indented
    \o << <<"        ">>,
          <<"    ", "except", " ", "Exception", " ", "as", " ", "e", ":">>,
          <<"        ", "logger.error(f\"Tool execution failed: {str(e)}\", exc_info=True)">>,
          <<"        ", "return", " ", "{">>,
          <<"            ", "'statusCode'", ":", " ", "500", ",">>,
          <<"            ", "'body'", ":", " ", "json.dumps({'error': str(e)})">>,
          <<"        ", "}">> >>

\* lines 138-245
_generate_lambda_code(tool_spec) ==
    LET handler_code == StripText(tool_spec.handler_code)
        logic == IF handler_code = <<>> THEN NoImplementation ELSE handler_code
        stripped == StripImports(logic)
        rewritten == IF Mentions(stripped, <<"put_item">>) /\ NeedsDecimal(logic)
                     THEN WrapNumericFields(stripped, 1) ELSE stripped
    IN  IF Mentions(handler_code, DefHandler) \/ Mentions(handler_code, DefLambdaHandler)
        THEN IF ~ Mentions(handler_code, ImportJson)
             THEN ImportBlock \o handler_code ELSE handler_code
        ELSE Imports(logic) \o Skeleton(tool_spec.name, Indent(rewritten, "        "))

\* lines 247-262: the archive holds the code as lambda_function.py
_create_lambda_package(code) == [file |-> "lambda_function.py", code |-> code]

(***************************************************************************)
(* Inputs and configuration.                                               *)
(***************************************************************************)
Invocations == 1..NumInvocations

\* names the agent passes to create_gateway
GatewayNames == { <<"G"," ","W">>, <<"G","_","W">>, <<"-","9","!">> }
Descriptions == { <<"d","e","s","c">> }

\* (name, gateway_id, known_agent_ids) of the deploy_agent calls: gateway_id
\* absent (None, the default, or ''), or present; known_agent_ids empty
\* (None, the default, or []) or not
KnownIds == << <<"A","1">>, <<"A","2">> >>
DeployArgs ==
    { << <<"C"," ","B">>, None,          None     >>,
      << <<"C","-","B">>, <<>>,          <<>>     >>,
      << <<"C"," ","B">>, None,          KnownIds >>,
      << <<"C","-","B">>, <<>>,          KnownIds >>,
      << <<"C"," ","B">>, <<"G","1">>,   <<>>     >>,
      << <<"C","-","B">>, <<"G","1">>,   KnownIds >>,
      << <<"7","x">>,     <<"G","1">>,   None     >> }
Purpose == <<"M","a","t","h">>
Capabilities == << <<"c","a","l","c">>, <<"s","u","m">> >>
SystemPrompt == <<"Y","o","u">>

\* os.getenv('AGENTCORE_EXECUTION_ROLE_ARN'): unset, empty or an ARN
RoleArn == <<"a","r","n",":","r","o","l","e">>
ExecutionRoleSettings == { None, <<>>, RoleArn }
Region == <<"u","s","-","w","e","s","t","-","2">>
ModelId == <<"h","a","i","k","u">>
MemoryId == <<"m","e","m","-","1">>
AccountId == <<"1","2","3">>
EcrPrefix == <<"r","e","p","o">>

\* str(e) of the exceptions the external calls raise, as sequences of fragments
ErrorMessages == { <<"ThrottlingException">>,
                   <<"AccessDenied", "Exception">>,
                   <<"An error: ", "ImageNotFoundException">>,
                   <<"UnauthorizedOperation", " and ", "RepositoryNotFoundException">> }

\* identifiers the control plane hands out
GatewayIdOf(n) == <<"G", ToString(n)>>
RuntimeIdOf(n) == <<"R", ToString(n)>>

(***************************************************************************)
(* State.                                                                  *)
(***************************************************************************)
VARIABLES
    environ,             \* os.environ of the hosting process
    gateway_tracker,     \* create_gateway._gateway_tracker (module global)
    deployment_tracker,  \* deploy_agent._deployment_tracker (module global)
    gateways,            \* control plane: the gateways that exist, {[id, name]}
    runtimes,            \* control plane: the agent runtimes that exist, {[id, name]}
    pc,                  \* pc[i]: where top-level invocation i is
    made,                \* made[i]: what the tool calls of invocation i announced as made
    last,                \* the operation that ran last, its arguments and result
    calls,               \* the external calls the last operation made, in order
    \* create_lambda_tools (builder_agent/tools/create_lambda_tools.py)
    tools_spec,          \* the tools_spec argument of the last call, as json.loads reads it
    created_tools,       \* its created_tools list when it returned
    failed_tools,        \* its failed_tools list when it returned
    tool_runs,           \* tool_runs[k]: the external calls made for element k of the
                         \* array, and the list the element was appended to
    tools_result,        \* what it returned
    \* A2AConnectionService (services/a2a_service.py)
    registry,            \* the agent registry: the AgentRecords it holds
    connections,         \* self._connections: source agent id -> list of A2AConnection
    a2a_last,            \* the last add_connection: its arguments and how it ended
    \* the sanitizers of utils/validation.py, called on their own
    raw_name,            \* the name to sanitize
    sanitized,           \* the last sanitizer call: its kind, what it returned and
                         \* how many times in a row the sanitizer has been applied
    \* LambdaService._generate_lambda_code (services/lambda_service.py)
    fragment,            \* tool_spec.handler_code, the fragment given
    lambda_code,         \* the code generated for it (None before)
    invocation           \* the generated handler invoked: the line that raised
                         \* and how the entry point ended

sessionVars == <<environ, gateway_tracker, deployment_tracker, gateways, runtimes,
                 pc, made, last, calls>>
batchVars == <<tools_spec, created_tools, failed_tools, tool_runs, tools_result>>
a2aVars == <<registry, connections, a2a_last>>
sanitizeVars == <<raw_name, sanitized>>
synthVars == <<fragment, lambda_code, invocation>>

vars == <<sessionVars, batchVars, a2aVars, sanitizeVars, synthVars>>

\* create_gateway.py lines 20-24
GatewayTrackerInit == [created |-> FALSE, gateway_id |-> None, gateway_name |-> None]
\* deploy_agent.py lines 23-26
DeploymentTrackerInit == [deployed |-> FALSE, agent_name |-> None]

NoArgs == [name |-> None, gateway_id |-> None, known_agent_ids |-> None]

\* what an operation returned: kind is the banner of the returned text
Result(kind, error_type, error_message, ref_id, ref_name) ==
    [kind |-> kind, error_type |-> error_type, error_message |-> error_message,
     ref_id |-> ref_id, ref_name |-> ref_name]

NoResult == Result("none", None, None, None, None)

\* utils/response_formatter.py
format_deployment_error(error_type, error_message) ==
    Result("failed", error_type, error_message, None, None)

format_deployment_success(agent_id, name) ==
    Result("deployed", None, None, agent_id, name)

format_agent_update(agent_id, name) ==
    Result("updated", None, None, agent_id, name)

\* One external call: the request, and either the message of the exception
\* it raised or what it answered (the id of what was made, the summaries of
\* a listing).
Raised(request, error_msg) ==
    [request |-> request, raised |-> error_msg, id |-> None, summaries |-> {}]
Answered(request, id, summaries) ==
    [request |-> request, raised |-> None, id |-> id, summaries |-> summaries]

\* what a tool call that returned `result` adds to made[i]: the gateway
\* (id and name) a "created" result announces, the agent a "deployed" or
\* "updated" result announces
Record(m, tool, result) ==
    IF tool = "create_gateway" /\ result.kind = "created"
    THEN [m EXCEPT !.gateways = @ \cup {[id |-> result.ref_id, name |-> result.ref_name]}]
    ELSE IF tool = "deploy_agent" /\ result.kind \in {"deployed", "updated"}
    THEN [m EXCEPT !.agents = @ \cup {[id |-> result.ref_id, name |-> result.ref_name]}]
    ELSE m

\* the session tools before the first invocation
SessionIdle ==
    /\ gateway_tracker = GatewayTrackerInit
    /\ deployment_tracker = DeploymentTrackerInit
    /\ gateways = {}
    /\ runtimes = {}
    /\ pc = [i \in Invocations |-> "idle"]
    /\ made = [i \in Invocations |-> [gateways |-> {}, agents |-> {}]]
    /\ last = [tool |-> "none", inv |-> 0, args |-> NoArgs, result |-> NoResult]
    /\ calls = <<>>

\* what create_lambda_tools returned: the banner of the text (kind), the error
\* type and message of a failure, the gateway id and tool names of a success
ToolsResult(kind, error_type, error_message, gateway_id, names) ==
    [kind |-> kind, error_type |-> error_type, error_message |-> error_message,
     gateway_id |-> gateway_id, names |-> names]

NoToolsResult == ToolsResult("none", None, None, None, <<>>)

\* no create_lambda_tools call has been made
BatchIdle ==
    /\ created_tools = <<>>
    /\ failed_tools = <<>>
    /\ tool_runs = <<>>
    /\ tools_result = NoToolsResult

\* how an add_connection call ended: the exception it raised (None when it
\* returned) with its message, whether the registry was asked for the target,
\* whether the A2AConnection object was constructed
A2ACall(source_agent_id, target_agent_id, target_a2a_url, raised, message, consulted, constructed) ==
    [op |-> "add_connection", source_agent_id |-> source_agent_id,
     target_agent_id |-> target_agent_id, target_a2a_url |-> target_a2a_url,
     raised |-> raised, message |-> message,
     consulted |-> consulted, constructed |-> constructed]

NoA2ACall ==
    [A2ACall(None, None, None, None, None, FALSE, FALSE) EXCEPT !.op = "none"]

\* no A2AConnectionService has been constructed
A2AIdle ==
    /\ registry = {}
    /\ connections = <<>>
    /\ a2a_last = NoA2ACall

\* no sanitizer has been called
SanitizeIdle ==
    /\ raw_name = <<>>
    /\ sanitized = [kind |-> "none", name |-> <<>>, times |-> 0]

\* no code has been generated
SynthIdle ==
    /\ fragment = <<>>
    /\ lambda_code = None
    /\ invocation = [line |-> 0, result |-> "none"]

\* the hosting process as it starts: the session tools are the ones called
Init ==
    /\ environ \in [AGENTCORE_EXECUTION_ROLE_ARN : ExecutionRoleSettings]
    /\ tools_spec = [json |-> "none", items |-> <<>>]
    /\ SessionIdle /\ BatchIdle /\ A2AIdle /\ SanitizeIdle /\ SynthIdle

\* the bookkeeping every tool call ends with
Returned(i, tool, args, result, made_calls) ==
    /\ last' = [tool |-> tool, inv |-> i, args |-> args, result |-> result]
    /\ calls' = made_calls
    /\ made' = [made EXCEPT ![i] = Record(@, tool, result)]

(***************************************************************************)
(* builder_agent/builder_agent.py: invoke_agent                            *)
(***************************************************************************)
\* lines 50-51
ResetDeploymentTracker == DeploymentTrackerInit
\* faulty variant: the gateway tracker is not reset
ResetGatewayTracker_Kept == gateway_tracker
\* lines 52-54
ResetGatewayTracker == GatewayTrackerInit

\* The entry point up to the agent loop: the reset, then the early return on an
\* empty prompt (or on a failure while the agent is set up), else the loop runs.
InvokeAgent(i, runs) ==
    /\ pc[i] = "idle"
    /\ \A j \in Invocations : j < i => pc[j] # "idle"   \* numbered as they arrive
    /\ deployment_tracker' = ResetDeploymentTracker
    /\ gateway_tracker' = ResetGatewayTracker
    /\ pc' = [pc EXCEPT ![i] = IF runs THEN "running" ELSE "done"]
    /\ last' = [tool |-> "invoke_agent", inv |-> i, args |-> NoArgs, result |-> NoResult]
    /\ calls' = <<>>
    /\ UNCHANGED <<environ, gateways, runtimes, made>>
    /\ UNCHANGED <<batchVars, a2aVars, sanitizeVars, synthVars>>

\* agent(user_input) returns: lines 103-106
ReturnResponse(i) ==
    /\ pc[i] = "running"
    /\ pc' = [pc EXCEPT ![i] = "done"]
    /\ last' = [tool |-> "return", inv |-> i, args |-> NoArgs, result |-> NoResult]
    /\ calls' = <<>>
    /\ UNCHANGED <<environ, gateway_tracker, deployment_tracker, gateways, runtimes, made>>
    /\ UNCHANGED <<batchVars, a2aVars, sanitizeVars, synthVars>>

\* the agent loop of invocation i may call a tool
MayCallTool(i) == pc[i] = "running"

(***************************************************************************)
(* builder_agent/tools/create_gateway.py: create_gateway                   *)
(***************************************************************************)
\* faulty variant: the duplicate guard is missing
GatewayAlreadyCreated_NoGuard == FALSE
\* line 40
GatewayAlreadyCreated == gateway_tracker.created

\* lines 42-53
DuplicateGatewayBlocked ==
    Result("duplicate_blocked", None, None,
           gateway_tracker.gateway_id, gateway_tracker.gateway_name)

\* faulty variant: only an unset variable is caught, an empty one is not
ExecutionRoleMissing_OnlyUnset == environ.AGENTCORE_EXECUTION_ROLE_ARN = None
\* lines 57, 59 (and deploy_agent.py lines 77, 81): `not execution_role`
ExecutionRoleMissing == ~Truthy(environ.AGENTCORE_EXECUTION_ROLE_ARN)

\* lines 60-64
GatewayConfigurationError ==
    format_deployment_error(<<"Configuration Error">>,
                            <<"AGENTCORE_EXECUTION_ROLE_ARN not configured">>)

\* lines 70, 72-83
CreateGatewayRequest(name, description) ==
    [op |-> "create_gateway", name |-> sanitize_gateway_name(name),
     description |-> description,
     roleArn |-> environ.AGENTCORE_EXECUTION_ROLE_ARN,
     protocolType |-> "MCP", authorizerType |-> "AWS_IAM"]

\* faulty variant: the flag is set, the id is not recorded
MarkGatewayCreated_NoId(gateway_id, name) ==
    [created |-> TRUE, gateway_id |-> None, gateway_name |-> name]
\* lines 89-91
MarkGatewayCreated(gateway_id, name) ==
    [created |-> TRUE, gateway_id |-> gateway_id, gateway_name |-> name]

\* lines 94-112
GatewayCreated(gateway_id, name) == Result("created", None, None, gateway_id, name)

\* lines 114-124
GatewayCreationFailed(error_msg) ==
    format_deployment_error(<<"Gateway Creation Failed">>, error_msg)

\* the control plane's create-gateway: a name in use is a conflict
GatewayNameInUse(safe_name) == \E g \in gateways : g.name = safe_name
ConflictMessage == <<"ConflictException">>

create_gateway(i, name, description) ==
    /\ MayCallTool(i)
    /\ LET args == [name |-> name, gateway_id |-> None, known_agent_ids |-> None]
           req == CreateGatewayRequest(name, description)
           gateway_id == GatewayIdOf(Cardinality(gateways) + 1)
       IN  IF GatewayAlreadyCreated
           THEN /\ Returned(i, "create_gateway", args, DuplicateGatewayBlocked, <<>>)
                /\ UNCHANGED <<gateway_tracker, gateways>>
           ELSE IF ExecutionRoleMissing
           THEN /\ Returned(i, "create_gateway", args, GatewayConfigurationError, <<>>)
                /\ UNCHANGED <<gateway_tracker, gateways>>
           ELSE \* line 72 answers
                \/ /\ ~GatewayNameInUse(req.name)
                   /\ gateways' = gateways \cup {[id |-> gateway_id, name |-> req.name]}
                   /\ gateway_tracker' = MarkGatewayCreated(gateway_id, name)
                   /\ Returned(i, "create_gateway", args, GatewayCreated(gateway_id, name),
                               <<Answered(req, gateway_id, {})>>)
                \* line 72 raises
                \/ \E error_msg \in ErrorMessages \cup
                        (IF GatewayNameInUse(req.name) THEN {ConflictMessage} ELSE {}) :
                       /\ Returned(i, "create_gateway", args,
                                   GatewayCreationFailed(error_msg),
                                   <<Raised(req, error_msg)>>)
                       /\ UNCHANGED <<gateway_tracker, gateways>>
    /\ UNCHANGED <<environ, deployment_tracker, runtimes, pc>>
    /\ UNCHANGED <<batchVars, a2aVars, sanitizeVars, synthVars>>

(***************************************************************************)
(* builder_agent/tools/deploy_agent.py: deploy_agent                       *)
(***************************************************************************)
\* faulty variant: the duplicate guard is missing
AlreadyDeployed_NoGuard == FALSE
\* line 60
AlreadyDeployed == deployment_tracker.deployed

\* lines 62-72
DuplicateDeploymentBlocked ==
    Result("duplicate_blocked", None, None, None, deployment_tracker.agent_name)

\* line 82
DeployConfigurationError ==
    Result("failed", None, <<"AGENTCORE_EXECUTION_ROLE_ARN not configured">>, None, None)

\* line 93
GenericAgentUri(account_id) ==
    account_id \o <<".">> \o Region \o <<"/">> \o EcrPrefix
               \o <<":","g","e","n","e","r","i","c","-","a","g","e","n","t","-","a","2","a">>

Server == <<"s","e","r","v","e","r">>
Client == <<"c","l","i","e","n","t">>

\* faulty variant: the two tests are in the other order, known agents win
AgentMode_ClientFirst(gateway_id, known_agent_ids) ==
    IF Truthy(known_agent_ids) /\ Len(known_agent_ids) > 0 THEN Client
    ELSE Server
\* lines 109-117
AgentMode(gateway_id, known_agent_ids) ==
    IF Truthy(gateway_id) THEN Server
    ELSE IF Truthy(known_agent_ids) /\ Len(known_agent_ids) > 0 THEN Client
    ELSE Server

\* lines 120, 125, 128-141 (the optional built-in tools are left disabled)
EnvVars(name, gateway_id, known_agent_ids) ==
    [AWS_REGION |-> Region,
     MODEL_ID |-> ModelId,
     SYSTEM_PROMPT |-> SystemPrompt,
     AGENT_NAME |-> name,
     AGENT_PURPOSE |-> Purpose,
     AGENT_CAPABILITIES |-> Join(<<",">>, Capabilities),
     AGENT_MODE |-> AgentMode(gateway_id, known_agent_ids),
     ENABLE_CODE_INTERPRETER |-> <<"f","a","l","s","e">>,
     ENABLE_BROWSER |-> <<"f","a","l","s","e">>,
     KNOWN_AGENT_IDS |-> IF Truthy(known_agent_ids)
                         THEN Join(<<",">>, known_agent_ids) ELSE <<>>,
     BEDROCK_AGENTCORE_MEMORY_ID |-> MemoryId,
     GATEWAY_ID |-> IF Truthy(gateway_id) THEN gateway_id ELSE <<>>]

\* faulty variant: every request declares the protocol
ProtocolConfig_Always(agent_mode) == <<"A","2","A">>
\* lines 144, 162-163, 218-219: the serverProtocol of the request's
\* protocolConfiguration; None stands for a request without that key
ProtocolConfig(agent_mode) ==
    IF agent_mode = Server THEN <<"A","2","A">> ELSE None

\* line 86
GetCallerIdentityRequest == [op |-> "get_caller_identity"]

\* lines 89, 147-165
CreateRuntimeRequest(name, gateway_id, known_agent_ids) ==
    [op |-> "create_agent_runtime",
     agentRuntimeName |-> sanitize_runtime_name(name),
     containerUri |-> GenericAgentUri(AccountId),
     roleArn |-> environ.AGENTCORE_EXECUTION_ROLE_ARN,
     networkMode |-> "PUBLIC",
     environmentVariables |-> EnvVars(name, gateway_id, known_agent_ids),
     protocolConfiguration |-> ProtocolConfig(AgentMode(gateway_id, known_agent_ids))]

\* line 193
ListRuntimesRequest == [op |-> "list_agent_runtimes"]

\* lines 194-198: the summaries of the listing that carry the runtime name
ExistingRuntimes(summaries, runtime_name) ==
    {r \in summaries : r.name = runtime_name}

\* faulty variant: the update is sent without the environment of the create
UpdateRuntimeRequest_NoKnownIds(agent_id, name, gateway_id, known_agent_ids) ==
    [op |-> "update_agent_runtime",
     agentRuntimeId |-> agent_id,
     containerUri |-> GenericAgentUri(AccountId),
     roleArn |-> environ.AGENTCORE_EXECUTION_ROLE_ARN,
     networkMode |-> "PUBLIC",
     environmentVariables |-> EnvVars(name, gateway_id, None),
     protocolConfiguration |-> ProtocolConfig(AgentMode(gateway_id, None))]
\* lines 204-221
UpdateRuntimeRequest(agent_id, name, gateway_id, known_agent_ids) ==
    [op |-> "update_agent_runtime",
     agentRuntimeId |-> agent_id,
     containerUri |-> GenericAgentUri(AccountId),
     roleArn |-> environ.AGENTCORE_EXECUTION_ROLE_ARN,
     networkMode |-> "PUBLIC",
     environmentVariables |-> EnvVars(name, gateway_id, known_agent_ids),
     protocolConfiguration |-> ProtocolConfig(AgentMode(gateway_id, known_agent_ids))]

\* faulty variant: the runtime name is recorded instead of the name passed in
MarkDeployed_RuntimeName(name) ==
    [deployed |-> TRUE, agent_name |-> sanitize_runtime_name(name)]
\* lines 172-173 and 226-227
MarkDeployed(name) == [deployed |-> TRUE, agent_name |-> name]

\* line 236
RuntimeNotFound ==
    Result("failed", None, <<"exists but couldn't be found">>, None, None)

\* faulty variant: the container test comes first
ClassifyDeploymentError_ContainerFirst(error_msg) ==
    IF Contains(error_msg, "RepositoryNotFoundException")
       \/ Contains(error_msg, "ImageNotFoundException")
    THEN format_deployment_error(<<"Container Not Found">>,
             <<"The generic agent container doesn't exist in ECR yet.">>)
    ELSE IF Contains(error_msg, "AccessDenied")
            \/ Contains(error_msg, "UnauthorizedOperation")
    THEN format_deployment_error(<<"Permission Denied">>, error_msg)
    ELSE format_deployment_error(<<"Deployment Error">>, error_msg)
\* lines 238-275
ClassifyDeploymentError(error_msg) ==
    IF Contains(error_msg, "AccessDenied") \/ Contains(error_msg, "UnauthorizedOperation")
    THEN format_deployment_error(<<"Permission Denied">>, error_msg)
    ELSE IF Contains(error_msg, "RepositoryNotFoundException")
            \/ Contains(error_msg, "ImageNotFoundException")
    THEN format_deployment_error(<<"Container Not Found">>,
             <<"The generic agent container doesn't exist in ECR yet.">>)
    ELSE format_deployment_error(<<"Deployment Error">>, error_msg)

\* the control plane's create-agent-runtime: a name in use is a conflict
RuntimeNameInUse(runtime_name) == \E r \in runtimes : r.name = runtime_name

deploy_agent(i, name, gateway_id, known_agent_ids) ==
    /\ MayCallTool(i)
    /\ LET args == [name |-> name, gateway_id |-> gateway_id,
                    known_agent_ids |-> known_agent_ids]
           sts == Answered(GetCallerIdentityRequest, AccountId, {})
           create == CreateRuntimeRequest(name, gateway_id, known_agent_ids)
           runtime_name == create.agentRuntimeName
           conflict == Raised(create, ConflictMessage)
           new_id == RuntimeIdOf(Cardinality(runtimes) + 1)
           \* the call `request`, made after the calls `before`, raises: lines 238-275
           Fails(before, request) ==
               \E error_msg \in ErrorMessages :
                   /\ Returned(i, "deploy_agent", args, ClassifyDeploymentError(error_msg),
                               Append(before, Raised(request, error_msg)))
                   /\ UNCHANGED <<deployment_tracker, runtimes>>
       IN  IF AlreadyDeployed
           THEN /\ Returned(i, "deploy_agent", args, DuplicateDeploymentBlocked, <<>>)
                /\ UNCHANGED <<deployment_tracker, runtimes>>
           ELSE IF ExecutionRoleMissing
           THEN /\ Returned(i, "deploy_agent", args, DeployConfigurationError, <<>>)
                /\ UNCHANGED <<deployment_tracker, runtimes>>
           ELSE \* line 86 raises
                \/ Fails(<<>>, GetCallerIdentityRequest)
                \* line 165 raises something other than a conflict
                \/ Fails(<<sts>>, create)
                \* line 165 answers: lines 167-186
                \/ /\ ~RuntimeNameInUse(runtime_name)
                   /\ runtimes' = runtimes \cup {[id |-> new_id, name |-> runtime_name]}
                   /\ deployment_tracker' = MarkDeployed(name)
                   /\ Returned(i, "deploy_agent", args,
                               format_deployment_success(new_id, name),
                               <<sts, Answered(create, new_id, {})>>)
                \* line 165 raises ConflictException: lines 188-236
                \/ /\ RuntimeNameInUse(runtime_name)
                   /\ \* line 193 raises
                      \/ Fails(<<sts, conflict>>, ListRuntimesRequest)
                      \* line 193 answers a page of the runtimes
                      \/ \E summaries \in SUBSET runtimes :
                           LET list == Answered(ListRuntimesRequest, None, summaries)
                               found == ExistingRuntimes(summaries, runtime_name)
                           IN
                           IF found = {}
                           THEN /\ Returned(i, "deploy_agent", args, RuntimeNotFound,
                                            <<sts, conflict, list>>)
                                /\ UNCHANGED <<deployment_tracker, runtimes>>
                           ELSE LET agent_id == (CHOOSE r \in found : TRUE).id
                                    update == UpdateRuntimeRequest(agent_id, name,
                                                  gateway_id, known_agent_ids)
                                IN  \* line 221 raises
                                    \/ Fails(<<sts, conflict, list>>, update)
                                    \* line 221 answers: lines 223-234
                                    \/ /\ deployment_tracker' = MarkDeployed(name)
                                       /\ Returned(i, "deploy_agent", args,
                                              format_agent_update(agent_id, name),
                                              <<sts, conflict, list,
                                                Answered(update, agent_id, {})>>)
                                       /\ UNCHANGED runtimes
    /\ UNCHANGED <<environ, gateway_tracker, gateways, pc>>
    /\ UNCHANGED <<batchVars, a2aVars, sanitizeVars, synthVars>>

(***************************************************************************)
(* builder_agent/tools/create_lambda_tools.py: create_lambda_tools, with   *)
(* services/lambda_service.py: LambdaService.create_tool_function          *)
(***************************************************************************)
\* os.getenv(key)
Getenv(key) == IF key \in DOMAIN environ THEN environ[key] ELSE None

LambdaRoleArn == <<"a","r","n",":","f","n">>

\* line 53: os.getenv(LAMBDA_...) or os.getenv(AGENTCORE_...)
LambdaExecutionRole ==
    IF Truthy(Getenv("LAMBDA_EXECUTION_ROLE_ARN"))
    THEN Getenv("LAMBDA_EXECUTION_ROLE_ARN")
    ELSE Getenv("AGENTCORE_EXECUTION_ROLE_ARN")

\* An element of the tools_spec array as json.loads reads it: a JSON object
\* (a dict with the given fields) or another JSON value.
JsonObject(fields) == [json |-> "object", fields |-> fields]
JsonNumber == [json |-> "number", fields |-> [value |-> 42]]

\* an input_schema: its type, its properties (name and type of each), its
\* required list
InputSchema(properties, required) ==
    [type |-> "object", properties |-> properties, required |-> required]

NumberProperty(name) == [name |-> name, type |-> "number"]

AddTool ==
    JsonObject([name |-> <<"a","d","d">>,
                description |-> <<"Add two numbers">>,
                input_schema |-> InputSchema({NumberProperty("a"), NumberProperty("b")},
                                             <<"a", "b">>),
                handler_code |-> <<"return {'sum': 3}">>])
\* the properties map is empty
EmptyPropertiesTool ==
    JsonObject([name |-> <<"G","e","t","_","x">>,
                description |-> <<"Get x">>,
                input_schema |-> InputSchema({}, <<>>),
                handler_code |-> <<"return {'x': 1}">>])
\* a required name is not among the properties
BadRequiredTool ==
    JsonObject([name |-> <<"r"," ","q">>,
                description |-> <<"Look up">>,
                input_schema |-> InputSchema({NumberProperty("a")}, <<"z">>),
                handler_code |-> <<"return {}">>])
\* the handler_code field is missing
NoHandlerTool ==
    JsonObject([name |-> <<"n","h">>,
                description |-> <<"No handler">>,
                input_schema |-> InputSchema({NumberProperty("a")}, <<>>)])

ToolDefs == {AddTool, EmptyPropertiesTool, BadRequiredTool, NoHandlerTool, JsonNumber}

ToolGatewayId == <<"G","1">>

\* What the control plane does with the calls made for one element:
\*   function    get_function answers ("found"), raises ResourceNotFoundException
\*               ("not_found") or raises another ClientError ("raises")
\*   code        update_function_code / create_function answers or raises
\*   target      create_gateway_target answers or raises
\*   identity    get_caller_identity answers or raises
\*   permission  add_permission answers ("granted"), raises
\*               ResourceConflictException ("conflict") or raises otherwise
Script(function, code, target, identity, permission) ==
    [function |-> function, code |-> code, target |-> target,
     identity |-> identity, permission |-> permission]

\* one script for each way the calls made for an element can go
FunctionRaises == Script("raises", "answers", "answers", "answers", "granted")
UpdateRaises == Script("found", "raises", "answers", "answers", "granted")
TargetRaises == Script("not_found", "answers", "raises", "answers", "granted")
IdentityRaises == Script("found", "answers", "answers", "raises", "granted")
GrantMade == Script("not_found", "answers", "answers", "answers", "granted")
GrantExists == Script("found", "answers", "answers", "answers", "conflict")
GrantRaises == Script("not_found", "answers", "answers", "answers", "raises")

Scripts == {FunctionRaises, UpdateRaises, TargetRaises, IdentityRaises,
            GrantMade, GrantExists, GrantRaises}

ServiceErrorMessage == <<"ThrottlingException">>
ResourceNotFoundMessage == <<"ResourceNotFoundException">>
ResourceConflictMessage == <<"ResourceConflictException">>

\* line 97
RequiredToolFields == {"name", "description", "input_schema", "handler_code"}

\* line 111
FunctionPrefix(gateway_id) == <<"g","a","t","e","w","a","y","-">> \o gateway_id

\* lambda_service.py lines 78-79
FunctionName(function_prefix, name) ==
    function_prefix \o <<"-">> \o Replace(Replace(Lower(name), " ", "-"), "_", "-")

\* response['FunctionArn'] of the function called function_name
FunctionArnOf(function_name) == <<"arn:aws:lambda:">> \o function_name

\* lambda_service.py line 91
GetFunctionRequest(function_name) ==
    [op |-> "get_function", FunctionName |-> function_name]
\* lambda_service.py lines 84-87, 94-97
UpdateFunctionCodeRequest(function_name, tool_spec) ==
    [op |-> "update_function_code", FunctionName |-> function_name,
     ZipFile |-> tool_spec.handler_code]
\* lambda_service.py lines 84-87, 103-119
CreateFunctionRequest(function_name, tool_spec, execution_role_arn) ==
    [op |-> "create_function", FunctionName |-> function_name,
     Role |-> execution_role_arn, ZipFile |-> tool_spec.handler_code,
     Description |-> tool_spec.description, TOOL_NAME |-> tool_spec.name]

\* faulty variant: a function that exists is created again
create_tool_function_AlwaysCreates(tool_spec, execution_role_arn, function_prefix, script) ==
    LET function_name == FunctionName(function_prefix, tool_spec.name)
        get == GetFunctionRequest(function_name)
        update == UpdateFunctionCodeRequest(function_name, tool_spec)
        create == CreateFunctionRequest(function_name, tool_spec, execution_role_arn)
        wrapped == <<"Failed to create Lambda function: ">> \o ServiceErrorMessage
        Fails(made_calls) ==
            [raised |-> wrapped, function_arn |-> None, function_name |-> None,
             calls |-> made_calls]
        Returns(made_calls) ==
            [raised |-> None, function_arn |-> FunctionArnOf(function_name),
             function_name |-> function_name, calls |-> made_calls]
    IN  IF script.function = "raises"
        THEN Fails(<<Raised(get, ServiceErrorMessage)>>)
        ELSE IF script.function = "found"
        THEN IF script.code = "raises"
             THEN Fails(<<Answered(get, None, {}), Raised(create, ServiceErrorMessage)>>)
             ELSE Returns(<<Answered(get, None, {}), Answered(create, None, {})>>)
        ELSE IF script.code = "raises"
             THEN Fails(<<Raised(get, ResourceNotFoundMessage),
                          Raised(create, ServiceErrorMessage)>>)
             ELSE Returns(<<Raised(get, ResourceNotFoundMessage),
                            Answered(create, None, {})>>)
\* lambda_service.py lines 56-136: what create_tool_function raised (None when
\* it returned), what it returned, the calls it made
create_tool_function(tool_spec, execution_role_arn, function_prefix, script) ==
    LET function_name == FunctionName(function_prefix, tool_spec.name)
        get == GetFunctionRequest(function_name)
        update == UpdateFunctionCodeRequest(function_name, tool_spec)
        create == CreateFunctionRequest(function_name, tool_spec, execution_role_arn)
        wrapped == <<"Failed to create Lambda function: ">> \o ServiceErrorMessage
        Fails(made_calls) ==
            [raised |-> wrapped, function_arn |-> None, function_name |-> None,
             calls |-> made_calls]
        Returns(made_calls) ==
            [raised |-> None, function_arn |-> FunctionArnOf(function_name),
             function_name |-> function_name, calls |-> made_calls]
    IN  IF script.function = "raises"
        THEN Fails(<<Raised(get, ServiceErrorMessage)>>)
        ELSE IF script.function = "found"
        THEN IF script.code = "raises"
             THEN Fails(<<Answered(get, None, {}), Raised(update, ServiceErrorMessage)>>)
             ELSE Returns(<<Answered(get, None, {}), Answered(update, None, {})>>)
        ELSE IF script.code = "raises"
             THEN Fails(<<Raised(get, ResourceNotFoundMessage),
                          Raised(create, ServiceErrorMessage)>>)
             ELSE Returns(<<Raised(get, ResourceNotFoundMessage),
                            Answered(create, None, {})>>)

\* faulty variant: the target is registered without the function's ARN
CreateGatewayTargetRequest_NoArn(gateway_id, tool_def, function_arn) ==
    [op |-> "create_gateway_target", gatewayIdentifier |-> gateway_id,
     name |-> sanitize_gateway_target_name(tool_def.name),
     description |-> tool_def.description,
     lambdaArn |-> None,
     toolSchema |-> [name |-> tool_def.name, description |-> tool_def.description,
                     inputSchema |-> tool_def.input_schema],
     credentialProviderType |-> "GATEWAY_IAM_ROLE"]
\* lines 116-143
CreateGatewayTargetRequest(gateway_id, tool_def, function_arn) ==
    [op |-> "create_gateway_target", gatewayIdentifier |-> gateway_id,
     name |-> sanitize_gateway_target_name(tool_def.name),
     description |-> tool_def.description,
     lambdaArn |-> function_arn,
     toolSchema |-> [name |-> tool_def.name, description |-> tool_def.description,
                     inputSchema |-> tool_def.input_schema],
     credentialProviderType |-> "GATEWAY_IAM_ROLE"]

\* lines 151-157
AddPermissionRequest(gateway_id, function_name) ==
    [op |-> "add_permission", FunctionName |-> function_name,
     StatementId |-> <<"AllowGatewayInvoke-">> \o gateway_id,
     Action |-> "lambda:InvokeFunction",
     Principal |-> "bedrock-agentcore.amazonaws.com",
     SourceArn |-> <<"arn:aws:bedrock-agentcore:">> \o Region \o <<":">>
                   \o AccountId \o <<":gateway/">> \o gateway_id]

\* faulty variant: a grant that already exists fails the tool
GrantSettled_ConflictFails(permission) == permission # "conflict"
\* lines 150-162: the grant is made, exists already, or its failure is only
\* logged; in each case the tool goes on to the success list
GrantSettled(permission) == permission \in {"granted", "conflict", "raises"}

\* the calls of lines 151-162: add_permission, once
GrantCalls(request, permission) ==
    IF permission = "granted" THEN <<Answered(request, None, {})>>
    ELSE IF permission = "conflict" THEN <<Raised(request, ResourceConflictMessage)>>
    ELSE <<Raised(request, ServiceErrorMessage)>>

\* How the loop body (lines 92-174) ends for one element: appended to
\* created_tools ("created"), appended to failed_tools ("failed"), or left by
\* an exception that the try of line 95 does not cover ("escaped").
ToolRun(listed, entry, made_calls) ==
    [listed |-> listed, entry |-> entry, calls |-> made_calls]
FailedTool(tool_name, error, made_calls) ==
    ToolRun("failed", [name |-> tool_name, error |-> error], made_calls)
CreatedTool(tool_name, function_arn, description, made_calls) ==
    ToolRun("created", [name |-> tool_name, function_arn |-> function_arn,
                        description |-> description], made_calls)
EscapedTool(error, made_calls) ==
    ToolRun("escaped", [error |-> error], made_calls)

\* lines 92-174: the loop body for one element of the array
ProcessTool(tool_def, script, execution_role, gateway_id) ==
    IF tool_def.json # "object"
    THEN \* line 92: tool_def.get raises, outside the try of line 95
         EscapedTool(<<"AttributeError: no attribute 'get'">>, <<>>)
    ELSE
    LET fields == tool_def.fields
        tool_name == IF "name" \in DOMAIN fields THEN fields.name ELSE <<"unknown">>
    IN  IF ~ (RequiredToolFields \subseteq DOMAIN fields)
        THEN FailedTool(tool_name, <<"Tool missing required fields">>, <<>>)
        ELSE
        LET lambda_result ==
                create_tool_function(fields, execution_role,
                                     FunctionPrefix(gateway_id), script)
            target == CreateGatewayTargetRequest(gateway_id, fields,
                                                 lambda_result.function_arn)
            grant == AddPermissionRequest(gateway_id, lambda_result.function_name)
            registered == lambda_result.calls \o <<Answered(target, None, {})>>
            identified == registered \o <<Answered(GetCallerIdentityRequest, None, {})>>
        IN  IF lambda_result.raised # None
            THEN FailedTool(tool_name, lambda_result.raised, lambda_result.calls)
            ELSE IF script.target = "raises"
            THEN FailedTool(tool_name, ServiceErrorMessage,
                            lambda_result.calls \o <<Raised(target, ServiceErrorMessage)>>)
            ELSE IF script.identity = "raises"
            THEN FailedTool(tool_name, ServiceErrorMessage,
                            registered \o <<Raised(GetCallerIdentityRequest,
                                                   ServiceErrorMessage)>>)
            ELSE IF GrantSettled(script.permission)
            THEN CreatedTool(tool_name, lambda_result.function_arn, fields.description,
                             identified \o GrantCalls(grant, script.permission))
            ELSE FailedTool(tool_name, ResourceConflictMessage,
                            identified \o GrantCalls(grant, script.permission))

\* the state of the loop: the two lists, what was done for each element taken
\* so far, and the exception that left the loop (None while it runs)
LoopStart == [created |-> <<>>, failed |-> <<>>, runs |-> <<>>, escaped |-> None]

\* lines 91, 164-168, 172-174: one turn of the loop. The except of line 172
\* appends to failed_tools and the loop goes on; an exception it does not
\* cover leaves the loop.
LoopStep(loop, run) ==
    [created |-> IF run.listed = "created"
                 THEN Append(loop.created, run.entry) ELSE loop.created,
     failed |-> IF run.listed = "failed"
                THEN Append(loop.failed, run.entry) ELSE loop.failed,
     runs |-> Append(loop.runs, [listed |-> run.listed, calls |-> run.calls]),
     escaped |-> IF run.listed = "escaped" THEN run.entry.error ELSE None]

\* lines 91-174: the loop over the array; items[k] is element k with the
\* script the control plane follows for it
RECURSIVE ProcessTools(_, _, _, _)
ProcessTools(items, execution_role, gateway_id, loop) ==
    IF items = <<>> \/ loop.escaped # None THEN loop
    ELSE ProcessTools(Tail(items), execution_role, gateway_id,
                      LoopStep(loop, ProcessTool(items[1].def, items[1].script,
                                                 execution_role, gateway_id)))

ToolsError(error_type, error_message) ==
    ToolsResult("failed", error_type, error_message, None, <<>>)

ToolNames(entries) == [k \in 1..Len(entries) |-> entries[k].name]

\* the text of line 201 up to the per-tool errors
CountsMessage(created, failed) ==
    <<"Created ", ToString(Len(created)), " tools, ", ToString(Len(failed)), " failed">>

\* lines 177-210
ToolsReport(gateway_id, created, failed) ==
    IF created # <<>> /\ failed = <<>>
    THEN ToolsResult("created", None, None, gateway_id, ToolNames(created))
    ELSE IF failed # <<>>
    THEN ToolsError(<<"Partial Failure">>, CountsMessage(created, failed))
    ELSE ToolsError(<<"All Tools Failed">>, <<"No tools were created successfully">>)

\* lines 50-222. json.loads(tools_spec) either raises, or gives a value that
\* is not a list, or gives the array tools_spec.items; scripts[k] is what the
\* control plane does with the calls made for element k.
create_lambda_tools(gateway_id, scripts) ==
    LET items == [k \in 1..Len(tools_spec.items) |->
                      [def |-> tools_spec.items[k], script |-> scripts[k]]]
        loop == ProcessTools(items, LambdaExecutionRole, gateway_id, LoopStart)
        parsed == Truthy(LambdaExecutionRole) /\ tools_spec.json = "array"
    IN  /\ tools_result.kind = "none"
        /\ tools_spec.json # "none"
        /\ created_tools' = IF parsed THEN loop.created ELSE <<>>
        /\ failed_tools' = IF parsed THEN loop.failed ELSE <<>>
        /\ tool_runs' = IF parsed THEN loop.runs ELSE <<>>
        /\ tools_result' =
               IF ~ Truthy(LambdaExecutionRole)
               THEN ToolsError(<<"Configuration Error">>,
                               <<"Lambda execution role not configured">>)
               ELSE IF tools_spec.json = "unparsable"
               THEN ToolsError(<<"Invalid JSON">>, <<"Failed to parse tools_spec">>)
               ELSE IF tools_spec.json # "array"
               THEN ToolsError(<<"Invalid Format">>, <<"tools_spec must be a JSON array">>)
               ELSE IF loop.escaped # None
               THEN ToolsError(<<"Lambda Tools Creation Failed">>, loop.escaped)
               ELSE ToolsReport(gateway_id, loop.created, loop.failed)
        /\ UNCHANGED <<tools_spec, sessionVars, a2aVars, sanitizeVars, synthVars>>

\* the scripts the control plane is taken to follow for an element: each of
\* them for AddTool, some that succeed and some that fail for the other
\* elements with all fields, one for an element for which no call is made
ScriptsFor(tool_def) ==
    IF tool_def = AddTool THEN Scripts
    ELSE IF tool_def = EmptyPropertiesTool
    THEN {FunctionRaises, TargetRaises, GrantMade, GrantExists}
    ELSE {GrantMade}

\* the values tools_spec may hold
ToolsSpecs ==
    {[json |-> "unparsable", items |-> <<>>], [json |-> "object", items |-> <<>>]}
    \cup {[json |-> "array", items |-> items] :
             items \in UNION {[1..n -> ToolDefs] : n \in 0..MaxBatch}}

\* a process that is asked to register one batch of tools
InitTools ==
    /\ environ \in {[LAMBDA_EXECUTION_ROLE_ARN |-> None,
                      AGENTCORE_EXECUTION_ROLE_ARN |-> None],
                     [LAMBDA_EXECUTION_ROLE_ARN |-> None,
                      AGENTCORE_EXECUTION_ROLE_ARN |-> RoleArn],
                     [LAMBDA_EXECUTION_ROLE_ARN |-> LambdaRoleArn,
                      AGENTCORE_EXECUTION_ROLE_ARN |-> RoleArn]}
    /\ tools_spec \in ToolsSpecs
    /\ SessionIdle /\ BatchIdle /\ A2AIdle /\ SanitizeIdle /\ SynthIdle

NextTools ==
    /\ tools_result.kind = "none"
    /\ \E scripts \in [1..Len(tools_spec.items) -> Scripts] :
        /\ \A k \in 1..Len(scripts) : scripts[k] \in ScriptsFor(tools_spec.items[k])
        /\ create_lambda_tools(ToolGatewayId, scripts)

SpecTools == InitTools /\ [][NextTools]_vars

(***************************************************************************)
(* services/a2a_service.py: A2AConnection, A2AConnectionService, with      *)
(* utils/validation.py: validate_a2a_url                                   *)
(***************************************************************************)
Whitespace == {" ", "\t", "\n"}

\* not s.strip()
IsBlank(s) == \A i \in 1..Len(s) : s[i] \in Whitespace

\* s.find(c, start) for c among cs: the first position at or after start that
\* holds one of cs, 0 when there is none (positions count from 1)
RECURSIVE FindFirst(_, _, _)
FindFirst(s, cs, start) ==
    IF start > Len(s) THEN 0
    ELSE IF s[start] \in cs THEN start
    ELSE FindFirst(s, cs, start + 1)

\* s.rfind(c): the last position that holds c, 0 when there is none
RECURSIVE FindLast(_, _, _)
FindLast(s, c, end) ==
    IF end < 1 THEN 0
    ELSE IF s[end] = c THEN end
    ELSE FindLast(s, c, end - 1)

SchemeChars == Letters \cup Digits \cup {"+", "-", "."}

\* urllib.parse.urlparse(url), for URLs without brackets: the scheme (the
\* text before the first colon when it is a letter followed by scheme
\* characters, in lower case) and the netloc (after "//", up to the next
\* "/", "?" or "#")
urlparse(url) ==
    LET colon == FindFirst(url, {":"}, 1)
        has_scheme == /\ colon > 1
                      /\ url[1] \in Letters
                      /\ \A k \in 1..(colon - 1) : url[k] \in SchemeChars
        rest == IF has_scheme THEN SubSeq(url, colon + 1, Len(url)) ELSE url
        has_netloc == Len(rest) >= 2 /\ rest[1] = "/" /\ rest[2] = "/"
        delim == FindFirst(rest, {"/", "?", "#"}, 3)
    IN  [scheme |-> IF has_scheme THEN Lower(SubSeq(url, 1, colon - 1)) ELSE <<>>,
         netloc |-> IF ~ has_netloc THEN <<>>
                    ELSE IF delim = 0 THEN SubSeq(rest, 3, Len(rest))
                    ELSE SubSeq(rest, 3, delim - 1)]

\* urlparse(url).hostname: the netloc without its user information and its
\* port, in lower case; the empty string stands for None
Hostname(url) ==
    LET netloc == urlparse(url).netloc
        at == FindLast(netloc, "@", Len(netloc))
        hostport == SubSeq(netloc, at + 1, Len(netloc))
        colon == FindFirst(hostport, {":"}, 1)
    IN  Lower(IF colon = 0 THEN hostport ELSE SubSeq(hostport, 1, colon - 1))

Https == <<"h","t","t","p","s">>

\* validation.py lines 513-572: the message of the ValidationError that
\* validate_a2a_url raises, None when it returns True
validate_a2a_url(url) ==
    IF url = <<>> THEN <<"A2A URL cannot be empty">>
    ELSE IF IsBlank(url) THEN <<"A2A URL cannot be only whitespace">>
    ELSE IF urlparse(url).scheme # Https
    THEN <<"A2A URL must use HTTPS protocol, got: ">> \o urlparse(url).scheme
    ELSE IF urlparse(url).netloc = <<>> THEN <<"A2A URL must have a valid hostname">>
    ELSE None

\* lines 104-139: the message of the A2AValidationError that
\* A2AConnection._validate_a2a_url raises, None when it returns
ConnectionUrlError(url) ==
    IF url = <<>> \/ IsBlank(url) THEN <<"A2A URL cannot be empty">>
    ELSE IF urlparse(url).scheme # Https
    THEN <<"A2A URL must use HTTPS protocol, got: ">> \o urlparse(url).scheme
    ELSE IF urlparse(url).netloc = <<>> THEN <<"A2A URL must have a valid hostname">>
    ELSE None

A2AConnection(source_agent_id, target_agent_id, target_a2a_url, target_agent_name) ==
    [source_agent_id |-> source_agent_id, target_agent_id |-> target_agent_id,
     target_a2a_url |-> target_a2a_url, target_agent_name |-> target_agent_name]

\* lines 88-102: the message of the A2AValidationError that __post_init__
\* raises, None when the object is constructed
PostInitError(connection) ==
    IF connection.source_agent_id = <<>> \/ IsBlank(connection.source_agent_id)
    THEN <<"source_agent_id cannot be empty">>
    ELSE IF connection.target_agent_id = <<>> \/ IsBlank(connection.target_agent_id)
    THEN <<"target_agent_id cannot be empty">>
    ELSE IF ConnectionUrlError(connection.target_a2a_url) # None
    THEN ConnectionUrlError(connection.target_a2a_url)
    ELSE IF connection.target_agent_name = <<>> \/ IsBlank(connection.target_agent_name)
    THEN <<"target_agent_name cannot be empty">>
    ELSE None

\* The agent registry (get_agent_registry()): the AgentRecords it holds.
AgentRecord(agent_id, agent_name) == [agent_id |-> agent_id, agent_name |-> agent_name]

Registries ==
    { { AgentRecord(<<"a","1">>, <<"O","n","e">>),
        AgentRecord(<<"a","2">>, <<"T","w","o">>),
        AgentRecord(<<"a","4">>, <<" ">>) } }

\* agent_registry.get_agent(agent_id): the record, None when there is none
get_agent(agent_id) ==
    IF \E a \in registry : a.agent_id = agent_id
    THEN CHOOSE a \in registry : a.agent_id = agent_id
    ELSE [agent_id |-> None, agent_name |-> None]

\* `not target_agent`
NotFound(agent) == agent.agent_id = None

\* https://h/p, https://:4, HTTP://h, https:///p and the empty string
A2AUrls ==
    { <<"h","t","t","p","s",":","/","/","h","/","p">>,
      <<"h","t","t","p","s",":","/","/",":","4">>,
      <<"H","T","T","P",":","/","/","h">>,
      <<"h","t","t","p","s",":","/","/","/","p">>,
      <<>> }

\* self._connections.get(agent_id, [])
get_connections(agent_id) ==
    IF agent_id \in DOMAIN connections THEN connections[agent_id] ELSE <<>>

\* [c for c in xs if c.target_agent_id != target_agent_id]
RECURSIVE WithoutTarget(_, _)
WithoutTarget(xs, target_agent_id) ==
    IF xs = <<>> THEN <<>>
    ELSE IF xs[1].target_agent_id = target_agent_id
    THEN WithoutTarget(Tail(xs), target_agent_id)
    ELSE <<xs[1]>> \o WithoutTarget(Tail(xs), target_agent_id)

\* lines 288-307: the connection replaces the one to the same target
Upsert(connection) ==
    [k \in DOMAIN connections \cup {connection.source_agent_id} |->
        IF k = connection.source_agent_id
        THEN Append(WithoutTarget(get_connections(k), connection.target_agent_id),
                    connection)
        ELSE connections[k]]

\* faulty variant: an unknown target is reported as a validation error
TargetNotFoundError_Validation == <<"A2AValidationError">>
\* lines 275-278
TargetNotFoundError == <<"A2AConnectionError">>

\* lines 420-478: the message of the A2AConnectionError that
\* _update_agent_environment raises for the stored connections `stored`, None
\* when it returns
UpdateEnvironmentError(agent_id, stored) ==
    IF stored = <<>> THEN None
    ELSE IF NotFound(get_agent(agent_id))
    THEN <<"Agent not found in registry: ">> \o agent_id
    ELSE None

\* lines 225-327
add_connection(source_agent_id, target_agent_id, target_a2a_url) ==
    LET Ends(raised, message, consulted, constructed) ==
            a2a_last' = A2ACall(source_agent_id, target_agent_id, target_a2a_url,
                                raised, message, consulted, constructed)
        target_agent == get_agent(target_agent_id)
        connection == A2AConnection(source_agent_id, target_agent_id,
                                    target_a2a_url, target_agent.agent_name)
    IN  /\ IF validate_a2a_url(target_a2a_url) # None
           THEN /\ Ends(<<"A2AValidationError">>,
                        <<"Invalid A2A URL: ">> \o validate_a2a_url(target_a2a_url),
                        FALSE, FALSE)
                /\ UNCHANGED connections
           ELSE IF NotFound(target_agent)
           THEN /\ Ends(TargetNotFoundError,
                        <<"Target agent not found in registry: ">> \o target_agent_id,
                        TRUE, FALSE)
                /\ UNCHANGED connections
           ELSE IF PostInitError(connection) # None
           THEN /\ Ends(<<"A2AValidationError">>, PostInitError(connection), TRUE, FALSE)
                /\ UNCHANGED connections
           ELSE /\ connections' = Upsert(connection)
                /\ LET pushed == UpdateEnvironmentError(
                                     source_agent_id,
                                     Upsert(connection)[source_agent_id])
                   IN  IF pushed # None
                       THEN Ends(<<"A2AConnectionError">>, pushed, TRUE, TRUE)
                       ELSE Ends(None, None, TRUE, TRUE)
        /\ UNCHANGED <<registry, sessionVars, batchVars, sanitizeVars, synthVars>>

\* a process that holds an A2AConnectionService
InitA2A ==
    /\ environ \in [AGENTCORE_EXECUTION_ROLE_ARN : {RoleArn}]
    /\ tools_spec = [json |-> "none", items |-> <<>>]
    /\ registry \in Registries
    /\ connections = <<>>
    /\ a2a_last = NoA2ACall
    /\ SessionIdle /\ BatchIdle /\ SanitizeIdle /\ SynthIdle

A2ASources == { <<"a","1">>, <<"a","3">>, <<>> }
A2ATargets == { <<"a","1">>, <<"a","2">>, <<"a","3">>, <<"a","4">> }

NextA2A ==
    \E source_agent_id \in A2ASources, target_agent_id \in A2ATargets,
       target_a2a_url \in A2AUrls :
        add_connection(source_agent_id, target_agent_id, target_a2a_url)

SpecA2A == InitA2A /\ [][NextA2A]_vars

(***************************************************************************)
(* services/lambda_service.py: the code generator on one handler fragment, *)
(* and the unit it returns invoked once                                    *)
(***************************************************************************)
\* the lines of a logic-only fragment
EmptyLine == <<>>
ImportOsSys == <<"import", " ", "os", ",", " ", "sys">>
ImportBoto3As == <<"import", " ", "boto3", " ", "as", " ", "b3">>
FromDatetime == <<"from", " ", "datetime", " ", "import", " ", "datetime">>
OpenTable ==
    <<"table", " ", "=", " ", "boto3", ".resource(", "'", "dynamodb", "'", ")",
      ".Table('t')">>
PutAmount ==
    <<"table.", "put_item", "(Item={", "'", "amount", "'", ":", " ",
      "parameters.get(", "'", "amount", "'", ")", "})">>
PutPrice ==
    <<"table.", "put_item", "(Item={", "\"", "price", "\"", " ", ":", " ",
      "parameters.get(", "'", "price", "'", ",", " ", "0", ")", "})">>
ReadKey == <<"n", " ", "=", " ", "parameters[", "'n'", "]">>
ReturnOk == <<"return", " ", "{'ok': True}">>

LogicLines ==
    {EmptyLine, ImportJson, ImportOsSys, ImportBoto3As, FromDatetime, OpenTable,
     PutAmount, PutPrice, ReadKey, ReturnOk}

\* the logic-only fragments: at most MaxFragmentLines lines, no line twice
LogicFragments ==
    {text \in UNION {[1..n -> LogicLines] : n \in 0..MaxFragmentLines} :
        \A i, j \in 1..Len(text) : text[i] = text[j] => i = j}

\* the fragments that define a complete entry point: with or without the
\* imports of the block of line 159, under either of the two names
HandlerDef == <<"def", " ", "handler", "(", "event", ",", " ", "context", ")", ":">>
LambdaHandlerDef ==
    <<"def", " ", "lambda_handler", "(", "event", ",", " ", "context", ")", ":">>
HandlerBody == <<"    ", "return", " ", "{'n': ", "parameters[", "'n'", "]", "}">>
CompleteHandlers ==
    { imports \o <<def, HandlerBody>> :
        imports \in { <<>>, <<ImportJson>>, <<ImportLogging>>,
                      <<ImportJson, ImportLogging>> },
        def \in {HandlerDef, LambdaHandlerDef} }

Fragments == LogicFragments \cup CompleteHandlers

SynthToolName == <<"a", "d", "d">>

\* line 84: create_tool_function generates the code of the tool
GenerateLambdaCode ==
    /\ lambda_code = None
    /\ lambda_code' = _generate_lambda_code([name |-> SynthToolName,
                                             handler_code |-> fragment])
    /\ UNCHANGED <<fragment, invocation>>
    /\ UNCHANGED <<sessionVars, batchVars, a2aVars, sanitizeVars>>

\* the calls of a fragment that may raise: the store calls and a key lookup
RaisingCalls == {".resource(", "put_item", "parameters["}
MayRaise(line) == \E i \in 1..Len(line) : line[i] \in RaisingCalls

ExceptException == <<"except", " ", "Exception", " ", "as", " ", "e", ":">>

\* the except clause that handles an exception raised by line k of the code:
\* the clause of the innermost try statement around the line that names
\* Exception (0 if there is none)
Handler(code, k) ==
    LET Inside(t) ==
            /\ StripLine(code[t]) = <<"try", ":">>
            /\ Indentation(code[t]) < Indentation(code[k])
            /\ \A m \in (t + 1)..(k - 1) :
                   BlankLine(code[m]) \/ Indentation(code[m]) > Indentation(code[t])
        Clause(t, m) ==
            /\ StripLine(code[m]) = ExceptException
            /\ Indentation(code[m]) = Indentation(code[t])
            /\ \A h \in (k + 1)..(m - 1) :
                   BlankLine(code[h]) \/ Indentation(code[h]) > Indentation(code[t])
        clauses == {m \in (k + 1)..Len(code) : \E t \in 1..(k - 1) : Inside(t) /\ Clause(t, m)}
    IN  IF clauses = {} THEN 0 ELSE CHOOSE m \in clauses : \A h \in clauses : m <= h

\* the clause at line m returns the failure result with status code 500
ReturnsFailure(code, m) ==
    /\ m + 3 <= Len(code)
    /\ StripLine(code[m + 2]) = <<"return", " ", "{">>
    /\ StripLine(code[m + 3]) = <<"'statusCode'", ":", " ", "500", ",">>

\* The unit is invoked and line k of it raises: the entry point returns the
\* failure result if a clause of the unit handles the exception, and the
\* exception leaves the entry point otherwise.
InvokeHandler(k) ==
    /\ lambda_code # None
    /\ invocation.line = 0
    /\ k \in 1..Len(lambda_code)
    /\ MayRaise(lambda_code[k])
    /\ LET m == Handler(lambda_code, k)
       IN  invocation' =
               [line |-> k,
                result |-> IF m > 0 /\ ReturnsFailure(lambda_code, m)
                           THEN "status_500" ELSE "raised"]
    /\ UNCHANGED <<fragment, lambda_code>>
    /\ UNCHANGED <<sessionVars, batchVars, a2aVars, sanitizeVars>>

\* a process that generates the code of one tool and invokes it
InitSynth ==
    /\ environ \in [AGENTCORE_EXECUTION_ROLE_ARN : {RoleArn}]
    /\ tools_spec = [json |-> "none", items |-> <<>>]
    /\ fragment \in Fragments
    /\ lambda_code = None
    /\ invocation = [line |-> 0, result |-> "none"]
    /\ SessionIdle /\ BatchIdle /\ A2AIdle /\ SanitizeIdle

NextSynth ==
    \/ GenerateLambdaCode
    \/ \E k \in 1..Len(lambda_code) : InvokeHandler(k)

SpecSynth == InitSynth /\ [][NextSynth]_vars

(***************************************************************************)
(* utils/validation.py: the sanitizers, called on a name                   *)
(***************************************************************************)
SanitizerKinds == {"aws", "memory", "runtime", "gateway", "gateway_target"}

\* the sanitizer of each kind, with its default max_length
Sanitize(kind, name) ==
    CASE kind = "aws" -> sanitize_aws_name(name)
      [] kind = "memory" -> sanitize_memory_name(name)
      [] kind = "runtime" -> sanitize_runtime_name(name)
      [] kind = "gateway" -> sanitize_gateway_name(name)
      [] kind = "gateway_target" -> sanitize_gateway_target_name(name)

\* characters of the names: a lower-case and an upper-case letter, a digit,
\* the two separators, a space, a punctuation mark and a letter outside ASCII
NameChars == {"a", "B", "7", "-", "_", " ", "!", "é"}

\* the names of at most n characters
NamesUpTo(n) == UNION {[1..k -> NameChars] : k \in 0..n}

\* c repeated n times
Repeat(c, n) == [i \in 1..n |-> c]

\* Names around the length caps: a start, a run of one character that ends
\* one before, at or one after a cap, and an end.
LongNames ==
    { start \o Repeat(c, n - Len(start)) \o end :
        start \in {<<>>, <<"7">>, <<"-">>},
        c \in {"a", "!"},
        n \in {cap + d : cap \in {MemoryMaxLength, AwsMaxLength, TargetMaxLength},
                         d \in {-1, 0, 1}},
        end \in {<<>>, <<"-", "B">>, <<"_", "7">>} }

SanitizeInputs == NamesUpTo(MaxNameLen) \cup LongNames

\* one call of a sanitizer on the name
SanitizeName(kind) ==
    /\ sanitized' = [kind |-> kind, name |-> Sanitize(kind, raw_name), times |-> 1]
    /\ UNCHANGED <<raw_name, sessionVars, batchVars, a2aVars, synthVars>>

\* the same sanitizer called on the name it has just returned
SanitizeAgain ==
    /\ sanitized.times = 1
    /\ sanitized' = [kind |-> sanitized.kind,
                     name |-> Sanitize(sanitized.kind, sanitized.name),
                     times |-> 2]
    /\ UNCHANGED <<raw_name, sessionVars, batchVars, a2aVars, synthVars>>

\* a process that sanitizes one name
InitSanitize ==
    /\ environ \in [AGENTCORE_EXECUTION_ROLE_ARN : {RoleArn}]
    /\ tools_spec = [json |-> "none", items |-> <<>>]
    /\ raw_name \in SanitizeInputs
    /\ sanitized = [kind |-> "none", name |-> <<>>, times |-> 0]
    /\ SessionIdle /\ BatchIdle /\ A2AIdle /\ SynthIdle

NextSanitize ==
    \/ \E kind \in SanitizerKinds : SanitizeName(kind)
    \/ SanitizeAgain

SpecSanitize == InitSanitize /\ [][NextSanitize]_vars

(***************************************************************************)
(* Specifications.                                                         *)
(***************************************************************************)
ToolCall(i) ==
    \/ \E name \in GatewayNames, description \in Descriptions :
           create_gateway(i, name, description)
    \/ \E a \in DeployArgs : deploy_agent(i, a[1], a[2], a[3])

\* no other invocation is in its agent loop
NoneRunning == \A j \in Invocations : pc[j] # "running"

\* The builder processes one instruction at a time (spec section 5).
Next ==
    \/ \E i \in Invocations, runs \in BOOLEAN : NoneRunning /\ InvokeAgent(i, runs)
    \/ \E i \in Invocations : ToolCall(i)
    \/ \E i \in Invocations : ReturnResponse(i)

Spec == Init /\ [][Next]_vars

\* Invocations hosted concurrently in one process, interleaved call by call.
NextConcurrent ==
    \/ \E i \in Invocations, runs \in BOOLEAN : InvokeAgent(i, runs)
    \/ \E i \in Invocations : ToolCall(i)
    \/ \E i \in Invocations : ReturnResponse(i)

SpecConcurrent == Init /\ [][NextConcurrent]_vars

(***************************************************************************)
(* Properties of the gateway session (create_gateway).                     *)
(***************************************************************************)
NotConfiguredMessage == <<"AGENTCORE_EXECUTION_ROLE_ARN not configured">>

\* the gateway a create_gateway result refers to
ReferredGateway(result) == [id |-> result.ref_id, name |-> result.ref_name]

\* the names of the agents invocation i has deployed
DeployedNames(i) == {a.name : a \in made[i].agents}

\* A create_gateway call that returned "created" made exactly one control-plane
\* call, the create-gateway that answered with the id it reports.
C1_FirstCall ==
    (last.tool = "create_gateway" /\ last.result.kind = "created")
    => /\ Len(calls) = 1
       /\ calls[1].request.op = "create_gateway"
       /\ calls[1].raised = None
       /\ calls[1].id = last.result.ref_id
       /\ ReferredGateway(last.result) \in made[last.inv].gateways

\* A create_gateway call of an invocation that already got "created" returns
\* "duplicate blocked" with the id and name of that first gateway, whatever its
\* arguments, and makes no control-plane call.
C1_SecondCall ==
    \A i \in Invocations :
        (last'.tool = "create_gateway" /\ last'.inv = i /\ made[i].gateways # {})
        => /\ last'.result.kind = "duplicate_blocked"
           /\ made[i].gateways = {ReferredGateway(last'.result)}
           /\ calls' = <<>>
           /\ gateways' = gateways

\* C1: within one session, after a create_gateway call that succeeded, every
\* further create_gateway call returns "duplicate blocked" referencing the id
\* and name of the first gateway; the first call made exactly one control-plane
\* create call and the second makes none.
C1_CreateGatewayTwice == []C1_FirstCall /\ [][C1_SecondCall]_vars

\* a second create_gateway call of a session has been blocked
C1_Witness ==
    /\ last.tool = "create_gateway"
    /\ last.result.kind = "duplicate_blocked"
    /\ made[last.inv].gateways = {ReferredGateway(last.result)}
    /\ last.args.name # last.result.ref_name

C2_TrackerShape ==
    /\ gateway_tracker.created <=> gateway_tracker.gateway_id # None
    /\ gateway_tracker.created <=> gateway_tracker.gateway_name # None

C2_TrackerStep ==
    /\ gateway_tracker' # gateway_tracker
       => \/ /\ last'.tool = "invoke_agent"
             /\ gateway_tracker' =
                    [created |-> FALSE, gateway_id |-> None, gateway_name |-> None]
          \/ /\ last'.tool = "create_gateway"
             /\ ~gateway_tracker.created
             /\ last'.result.kind = "created"
             /\ Len(calls') = 1
             /\ calls'[1].request.op = "create_gateway"
             /\ calls'[1].raised = None
             /\ gateway_tracker' = [created |-> TRUE, gateway_id |-> calls'[1].id,
                                    gateway_name |-> last'.args.name]
    /\ (last'.tool = "create_gateway" /\ gateway_tracker.created)
       => gateway_tracker' = gateway_tracker

\* C2: the gateway tracker goes absent -> created and no further in a session:
\* it changes only by the reset of a top-level invocation, or by a
\* create_gateway call that found it not created and whose control-plane
\* create answered, which sets created together with the returned id and the
\* name passed in; a create_gateway call that finds it created leaves it as it
\* is; and created is true exactly when gateway_id (and gateway_name) is set.
C2_GatewaySessionMachine == []C2_TrackerShape /\ [][C2_TrackerStep]_vars

\* a create_gateway call has just moved the tracker to created
C2_Witness ==
    /\ last.tool = "create_gateway"
    /\ last.result.kind = "created"
    /\ gateway_tracker.created
    /\ gateway_tracker.gateway_id = last.result.ref_id

(***************************************************************************)
(* Properties of the deployment session (deploy_agent).                    *)
(***************************************************************************)
C3_BlockedStep ==
    (last'.tool = "deploy_agent" /\ deployment_tracker.deployed)
    => /\ last'.result.kind = "duplicate_blocked"
       /\ last'.result.ref_name = deployment_tracker.agent_name
       /\ last'.result.ref_name \in DeployedNames(last'.inv)
       /\ calls' = <<>>
       /\ deployment_tracker' = deployment_tracker
       /\ runtimes' = runtimes

\* C3: a deploy_agent call made while the tracker says deployed returns
\* "duplicate blocked" naming the agent deployed before, makes no external call
\* and leaves the tracker (and the runtimes) unchanged.
C3_DeployBlockedWhenDeployed == [][C3_BlockedStep]_vars

\* a deploy_agent call for another agent has been blocked
C3_Witness ==
    /\ last.tool = "deploy_agent"
    /\ last.result.kind = "duplicate_blocked"
    /\ deployment_tracker.deployed
    /\ last.args.name # deployment_tracker.agent_name

C4_TrackerStep ==
    /\ deployment_tracker' # deployment_tracker
       => \/ /\ last'.tool = "invoke_agent"
             /\ deployment_tracker' = [deployed |-> FALSE, agent_name |-> None]
          \/ /\ last'.tool = "deploy_agent"
             /\ ~deployment_tracker.deployed
             /\ deployment_tracker' = [deployed |-> TRUE, agent_name |-> last'.args.name]
             /\ Len(calls') \in {2, 4}
             /\ calls'[Len(calls')].raised = None
             /\ \/ /\ last'.result.kind = "deployed"
                   /\ calls'[Len(calls')].request.op = "create_agent_runtime"
                \/ /\ last'.result.kind = "updated"
                   /\ calls'[2].raised = ConflictMessage
                   /\ calls'[Len(calls')].request.op = "update_agent_runtime"
    /\ (last'.tool = "deploy_agent" /\ last'.result.kind = "failed")
       => deployment_tracker' = deployment_tracker
    /\ (last'.tool \in {"deploy_agent", "create_gateway", "return"}
            /\ deployment_tracker.deployed)
       => deployment_tracker' = deployment_tracker

\* C4: the deployment tracker goes not-deployed -> deployed once per session:
\* it becomes deployed, with the name passed in, only in a deploy_agent call
\* whose create answered or whose update after a conflict answered; a
\* deploy_agent call that returns a failure leaves it unchanged; once deployed,
\* only the reset of a top-level invocation changes it.
C4_DeploymentSessionMachine == [][C4_TrackerStep]_vars

\* a deploy_agent call has just moved the tracker to deployed, recording the
\* name passed in (which is not the runtime name)
C4_Witness ==
    /\ last.tool = "deploy_agent"
    /\ last.result.kind = "deployed"
    /\ deployment_tracker = [deployed |-> TRUE, agent_name |-> last.args.name]
    /\ last.args.name # sanitize_runtime_name(last.args.name)

(***************************************************************************)
(* Properties of the reset at the top-level invocation.                    *)
(***************************************************************************)
\* each invocation has made at most one gateway and at most one agent
AtMostOneEach ==
    \A i \in Invocations :
        /\ Cardinality(made[i].gateways) <= 1
        /\ Cardinality(made[i].agents) <= 1

\* a "duplicate blocked" result refers to what the invocation it is returned
\* to has made itself
BlockedByOwn ==
    last.result.kind = "duplicate_blocked"
    => IF last.tool = "create_gateway"
       THEN ReferredGateway(last.result) \in made[last.inv].gateways
       ELSE last.result.ref_name \in DeployedNames(last.inv)

\* C5: with invocations processed one after another, invoke_agent leaves both
\* trackers at their initial values before any tool runs, a "duplicate
\* blocked" result never refers to a gateway or agent of an earlier
\* invocation, and each invocation creates at most one gateway and deploys at
\* most one agent.
C5_ResetPerInvocation ==
    /\ last.tool = "invoke_agent"
       => /\ gateway_tracker =
                [created |-> FALSE, gateway_id |-> None, gateway_name |-> None]
          /\ deployment_tracker = [deployed |-> FALSE, agent_name |-> None]
    /\ BlockedByOwn
    /\ AtMostOneEach

\* the second invocation has created a gateway and deployed an agent after the
\* first one did
C5_Witness ==
    /\ NumInvocations >= 2
    /\ made[1].gateways # {} /\ made[1].agents # {}
    /\ made[2].gateways # {} /\ made[2].agents # {}
    /\ last.inv = 2

\* C6: for every interleaving of two invocations running in the same process,
\* each invocation creates at most one gateway and deploys at most one agent,
\* and a "duplicate blocked" result refers only to a gateway or agent the same
\* invocation made.
C6_NoLeakBetweenInvocations == AtMostOneEach /\ BlockedByOwn

(***************************************************************************)
(* Properties of one deploy_agent call.                                    *)
(***************************************************************************)
\* the calls of the last operation that carry an environment contract
ContractCalls ==
    {k \in 1..Len(calls) :
        calls[k].request.op \in {"create_agent_runtime", "update_agent_runtime"}}

\* C7: the AGENT_MODE sent to the control plane is client exactly when
\* gateway_id is absent (None or empty) and known_agent_ids is non-empty, and
\* server in the three other cases, both set included.
C7_ModeDerivation ==
    last.tool = "deploy_agent"
    => LET present == last.args.gateway_id \notin {None, <<>>}
           nonempty == last.args.known_agent_ids \notin {None, <<>>}
       IN  \A k \in ContractCalls :
               LET mode == calls[k].request.environmentVariables.AGENT_MODE IN
               /\ present => mode = <<"s","e","r","v","e","r">>
               /\ ~present /\ nonempty => mode = <<"c","l","i","e","n","t">>
               /\ ~present /\ ~nonempty => mode = <<"s","e","r","v","e","r">>

\* deploy_agent was called with a gateway id and known agents, and sent server
C7_Witness ==
    /\ last.tool = "deploy_agent"
    /\ last.args.gateway_id = <<"G","1">>
    /\ last.args.known_agent_ids = KnownIds
    /\ ContractCalls # {}
    /\ \A k \in ContractCalls :
           calls[k].request.environmentVariables.AGENT_MODE = <<"s","e","r","v","e","r">>

\* the create call of the last deploy_agent raised the name conflict
ConflictOnCreate ==
    /\ last.tool = "deploy_agent"
    /\ Len(calls) >= 2
    /\ calls[2].request.op = "create_agent_runtime"
    /\ calls[2].raised = ConflictMessage

C9_FailuresClassified ==
    last.tool = "deploy_agent"
    => /\ last.result.kind \in {"deployed", "updated", "duplicate_blocked", "failed"}
       /\ (Len(calls) > 0 /\ calls[Len(calls)].raised # None)
          => LET msg == calls[Len(calls)].raised
                 permission == \E k \in 1..Len(msg) :
                                  msg[k] \in {"AccessDenied", "UnauthorizedOperation"}
                 container == \E k \in 1..Len(msg) :
                                  msg[k] \in {"RepositoryNotFoundException",
                                              "ImageNotFoundException"}
             IN  /\ last.result.kind = "failed"
                 /\ last.result.error_type =
                        IF permission THEN <<"Permission Denied">>
                        ELSE IF container THEN <<"Container Not Found">>
                        ELSE <<"Deployment Error">>

\* the update call of the conflict path raised a message that names both a
\* permission and a container problem
C9_Witness ==
    /\ last.tool = "deploy_agent"
    /\ Len(calls) = 4
    /\ calls[4].raised # None
    /\ Contains(calls[4].raised, "UnauthorizedOperation")
    /\ Contains(calls[4].raised, "RepositoryNotFoundException")
    /\ last.result.error_type = <<"Permission Denied">>

C10_MissingRoleStep ==
    (/\ environ.AGENTCORE_EXECUTION_ROLE_ARN \in {None, <<>>}
     /\ last'.tool \in {"create_gateway", "deploy_agent"})
    => /\ last'.result.kind = "failed"
       /\ last'.result.error_message = NotConfiguredMessage
       /\ calls' = <<>>
       /\ gateway_tracker' = gateway_tracker
       /\ deployment_tracker' = deployment_tracker
       /\ gateways' = gateways
       /\ runtimes' = runtimes

\* C10: with the execution role unset or empty, create_gateway and
\* deploy_agent return the "not configured" error, make no external call and
\* leave both trackers (and the control plane) unchanged.
C10_MissingRoleFailsFast == [][C10_MissingRoleStep]_vars

\* deploy_agent returned the configuration error with the role set to ''
C10_Witness ==
    /\ environ.AGENTCORE_EXECUTION_ROLE_ARN = <<>>
    /\ last.tool = "deploy_agent"
    /\ last.result.kind = "failed"
    /\ last.result.error_message = NotConfiguredMessage
    /\ calls = <<>>

(***************************************************************************)
(* Properties of the batch registration (create_lambda_tools).             *)
(***************************************************************************)
\* the call reached the loop over the array and has returned
BatchRan ==
    /\ tools_result.kind # "none"
    /\ tools_spec.json = "array"
    /\ Truthy(LambdaExecutionRole)

\* the elements of the array the loop took that went to the given list
Listed(list) == {k \in DOMAIN tool_runs : tool_runs[k].listed = list}

\* C11: after a batch every one of the N elements of the array is on exactly
\* one of the success list and the failure list (successes + failures = N): a
\* failure for one element never keeps the elements after it from being
\* processed.
C11_EveryToolListed ==
    BatchRan =>
        /\ Len(tool_runs) = Len(tools_spec.items)
        /\ \A k \in DOMAIN tool_runs : tool_runs[k].listed \in {"created", "failed"}
        /\ Len(created_tools) + Len(failed_tools) = Len(tools_spec.items)

\* the three reports of lines 177-210
AllSucceededReported == tools_result.kind = "created"
PartialFailureReported == tools_result.error_type = <<"Partial Failure">>
AllFailedReported == tools_result.error_type = <<"All Tools Failed">>

\* C12: the report says "all succeeded" exactly when at least one tool
\* succeeded and none failed, "partial failure" exactly when at least one
\* succeeded and at least one failed, "all failed" exactly when none succeeded
\* and at least one failed.
C12_ThreeOutcomes ==
    (BatchRan /\ Len(tool_runs) = Len(tools_spec.items)) =>
        /\ AllSucceededReported <=> (created_tools # <<>> /\ failed_tools = <<>>)
        /\ PartialFailureReported <=> (created_tools # <<>> /\ failed_tools # <<>>)
        /\ AllFailedReported <=> (created_tools = <<>> /\ failed_tools # <<>>)

\* element k of the array has every field and an input_schema that
\* validate_tool_schema rejects
InvalidSchema(k) ==
    /\ tools_spec.items[k].json = "object"
    /\ RequiredToolFields \subseteq DOMAIN tools_spec.items[k].fields
    /\ ~ validate_tool_schema(tools_spec.items[k].fields.input_schema)

\* every call made for element k answered
AllAnswered(k) ==
    \A c \in DOMAIN tool_runs[k].calls : tool_runs[k].calls[c].raised = None

\* C13: an element whose input_schema is invalid (no properties, or a required
\* name that is not a property) goes to the failure list with no call made to
\* the control plane for it, and the other elements are still registered: of
\* three elements with exactly one invalid schema, two succeed and one fails.
C13_InvalidSchemaFailsUncalled ==
    BatchRan =>
        /\ \A k \in DOMAIN tool_runs :
               InvalidSchema(k) =>
                   tool_runs[k].listed = "failed" /\ tool_runs[k].calls = <<>>
        /\ ( /\ Len(tools_spec.items) = 3
             /\ Len(tool_runs) = 3
             /\ Cardinality({k \in 1..3 : InvalidSchema(k)}) = 1
             /\ \A k \in 1..3 : ~ InvalidSchema(k) =>
                    tools_spec.items[k] = AddTool /\ AllAnswered(k) )
            => Len(created_tools) = 2 /\ Len(failed_tools) = 1

\* the add_permission calls made for element k
GrantCallsOf(k) ==
    {c \in DOMAIN tool_runs[k].calls :
        tool_runs[k].calls[c].request.op = "add_permission"}

\* the control plane answered the grant for element k with "already exists"
GrantExisted(k) ==
    \E c \in GrantCallsOf(k) : tool_runs[k].calls[c].raised = ResourceConflictMessage

\* C14: a tool whose invoke-permission grant the control plane answers with
\* "permission already exists" is a success: it is on the success list, not on
\* the failure list, and the grant is asked for once.
C14_ExistingGrantIsSuccess ==
    /\ Cardinality(Listed("created")) = Len(created_tools)
    /\ Cardinality(Listed("failed")) = Len(failed_tools)
    /\ \A k \in DOMAIN tool_runs :
           GrantExisted(k) =>
               /\ tool_runs[k].listed = "created"
               /\ Cardinality(GrantCallsOf(k)) = 1
               /\ \E e \in DOMAIN created_tools :
                      created_tools[e].name = tools_spec.items[k].fields.name

\* a batch in which one grant existed already and another element failed
C14_Witness ==
    /\ BatchRan
    /\ \E k \in DOMAIN tool_runs : GrantExisted(k)
    /\ failed_tools # <<>>

(***************************************************************************)
(* Properties of the A2A connection service (add_connection).              *)
(***************************************************************************)
\* the URL has scheme https and a host that is not empty
HttpsWithHost(url) == urlparse(url).scheme = Https /\ Hostname(url) # <<>>

\* the URLs of the connections from source to target that the map conns holds
StoredUrls(conns, source, target) ==
    IF source \in DOMAIN conns
    THEN {conns[source][k].target_a2a_url :
             k \in {k \in DOMAIN conns[source] :
                       conns[source][k].target_agent_id = target}}
    ELSE {}

AtMostOnePerTarget ==
    \A source \in DOMAIN connections :
        \A i, j \in DOMAIN connections[source] :
            connections[source][i].target_agent_id
                = connections[source][j].target_agent_id => i = j

\* an add_connection that returned sets the URL stored for its pair; nothing
\* else changes the URL stored for a pair
LatestUrlStep ==
    \A source \in A2ASources, target \in A2ATargets :
        IF /\ a2a_last'.source_agent_id = source
           /\ a2a_last'.target_agent_id = target
           /\ a2a_last'.raised = None
        THEN StoredUrls(connections', source, target) = {a2a_last'.target_a2a_url}
        ELSE StoredUrls(connections', source, target)
                 = StoredUrls(connections, source, target)

\* C15: after any sequence of add_connection calls a source holds at most one
\* connection per target, and the connection stored for a (source, target)
\* pair carries the URL of the most recent successful add_connection for that
\* pair.
C15_OnePerTargetLatestUrl == []AtMostOnePerTarget /\ [][LatestUrlStep]_vars

\* C16: add_connection with a URL whose scheme is not https or whose host is
\* empty raises a validation error before the registry is consulted and
\* leaves the connection map as it was.
C16_BadUrlStep ==
    ~ HttpsWithHost(a2a_last'.target_a2a_url) =>
        /\ a2a_last'.raised = <<"A2AValidationError">>
        /\ ~ a2a_last'.consulted
        /\ UNCHANGED connections
C16_BadUrlRejected == [][C16_BadUrlStep]_vars

\* C17: add_connection with a valid https URL and a target that the registry
\* does not hold fails with a connection error (not a validation error),
\* constructs no connection object and leaves the connection map as it was.
C17_UnknownTargetStep ==
    ( /\ HttpsWithHost(a2a_last'.target_a2a_url)
      /\ NotFound(get_agent(a2a_last'.target_agent_id)) ) =>
        /\ a2a_last'.raised = <<"A2AConnectionError">>
        /\ ~ a2a_last'.constructed
        /\ UNCHANGED connections
C17_UnknownTargetFails == [][C17_UnknownTargetStep]_vars

\* a call for an unknown target has failed while the map holds connections
C17_Witness ==
    /\ a2a_last.op = "add_connection"
    /\ HttpsWithHost(a2a_last.target_a2a_url)
    /\ NotFound(get_agent(a2a_last.target_agent_id))
    /\ a2a_last.raised = <<"A2AConnectionError">>
    /\ DOMAIN connections # {}

\* C18: every connection in the map has a source id, a target id and a target
\* name that are not empty, a URL with scheme https and a host that is not
\* empty, and is stored under its own source id.
C18_StoredConnectionsValid ==
    \A source \in DOMAIN connections :
        \A k \in DOMAIN connections[source] :
            LET c == connections[source][k]
            IN  /\ c.source_agent_id # <<>>
                /\ c.target_agent_id # <<>>
                /\ c.target_agent_name # <<>>
                /\ HttpsWithHost(c.target_a2a_url)
                /\ c.source_agent_id = source

\* C19: the environment push that ends add_connection is best-effort: with a
\* valid https URL and a target that the registry holds, add_connection
\* returns the new connection even when the push cannot complete.
C19_PushIsBestEffort ==
    ( /\ a2a_last.op = "add_connection"
      /\ HttpsWithHost(a2a_last.target_a2a_url)
      /\ ~ NotFound(get_agent(a2a_last.target_agent_id))
      /\ a2a_last.constructed ) =>
        a2a_last.raised = None

(***************************************************************************)
(* Properties of the sanitizers.                                           *)
(***************************************************************************)
\* the characters a sanitized name of each kind may hold
AllowedChars(kind) ==
    CASE kind = "aws" -> LowerCase \cup Digits \cup {"-"}
      [] kind = "memory" -> LowerCase \cup Digits \cup {"_"}
      [] kind = "runtime" -> Letters \cup Digits \cup {"_"}
      [] kind = "gateway" -> Letters \cup Digits \cup {"-"}
      [] kind = "gateway_target" -> Letters \cup Digits \cup {"-"}

\* the longest sanitized name of each kind
LengthCap(kind) ==
    CASE kind = "aws" -> 63
      [] kind = "memory" -> 48
      [] kind = "runtime" -> 48
      [] kind = "gateway" -> 48
      [] kind = "gateway_target" -> 100

\* C20: for every name and every kind the sanitizer returns a name that is not
\* empty, is no longer than the cap of the kind (generic 63, memory 48,
\* runtime 48, gateway 48, gateway target 100) and holds only the characters
\* the kind allows.
C20_SanitizedWellFormed ==
    sanitized.kind # "none" =>
        /\ sanitized.name # <<>>
        /\ Len(sanitized.name) <= LengthCap(sanitized.kind)
        /\ \A i \in 1..Len(sanitized.name) :
               sanitized.name[i] \in AllowedChars(sanitized.kind)

\* a name that needs the leading "agent_" and is longer than the cap with it
C20_Witness ==
    /\ sanitized.kind = "runtime"
    /\ Len(raw_name) = 48
    /\ raw_name[1] = "7"
    /\ Len(sanitized.name) = 48

\* C21: for every name and every kind, sanitizing the sanitized name again
\* returns it unchanged: sanitize(sanitize(x, kind), kind) = sanitize(x, kind),
\* for names that begin with a hyphen, an underscore or a digit and for names
\* longer than the cap too.
C21_SanitizeIdempotent ==
    [][sanitized'.times = 2 => sanitized'.name = sanitized.name]_vars

DerivedServer ==
    \/ last.args.gateway_id \notin {None, <<>>}
    \/ last.args.known_agent_ids \in {None, <<>>}

\* C25: the create request and the update request of the conflict path carry
\* the protocol declaration serverProtocol A2A exactly when the derived mode is
\* server; a request for a client-mode agent carries none.
C25_ProtocolOnlyForServer ==
    last.tool = "deploy_agent"
    => \A k \in ContractCalls :
           calls[k].request.protocolConfiguration =
               IF DerivedServer THEN <<"A","2","A">> ELSE None

\* a client-mode agent went down the conflict path: its create and its update
\* were both sent without the declaration
C25_Witness ==
    /\ last.tool = "deploy_agent"
    /\ ~DerivedServer
    /\ Cardinality(ContractCalls) = 2
    /\ \A k \in ContractCalls : calls[k].request.protocolConfiguration = None

(***************************************************************************)
(* add_connection and the connection map.                                  *)
(***************************************************************************)
\* C29: add_connection is all-or-nothing: when it raises (a validation error,
\* a connection error for a missing target, or an error of the environment
\* push that follows the upsert) the connection map is what it was before the
\* call; the map changes only in a call that returned a connection.
C29_AllOrNothingStep ==
    /\ a2a_last'.raised # None => connections' = connections
    /\ connections' # connections => a2a_last'.raised = None
C29_AddConnectionAllOrNothing == [][C29_AllOrNothingStep]_vars

(***************************************************************************)
(* The external steps made for one element of a batch.                     *)
(***************************************************************************)
\* the calls made for element k whose operation is one of ops
CallsOf(k, ops) ==
    {c \in DOMAIN tool_runs[k].calls : tool_runs[k].calls[c].request.op \in ops}

MutatingCalls(k) == CallsOf(k, {"update_function_code", "create_function"})

\* create_tool_function was called for element k
FunctionStepTaken(k) == CallsOf(k, {"get_function"}) # {}

\* the function name create_tool_function derives for the tool names of the
\* model under the prefix of gateway G1
DerivedFunctionName(name) ==
    <<"g","a","t","e","w","a","y","-","G","1","-">> \o
        ( CASE name = <<"a","d","d">> -> <<"a","d","d">>
            [] name = <<"G","e","t","_","x">> -> <<"g","e","t","-","x">>
            [] name = <<"r"," ","q">> -> <<"r","-","q">> )

C27_StepsInOrder ==
    \A k \in DOMAIN tool_runs :
        LET cs == tool_runs[k].calls
            functions == MutatingCalls(k)
            targets == CallsOf(k, {"create_gateway_target"})
            grants == CallsOf(k, {"add_permission"})
            Succeeded(steps) == \E c \in steps : cs[c].raised = None
        IN  /\ Cardinality(targets) <= 1 /\ Cardinality(grants) <= 1
            /\ \A t \in targets :
                   \E f \in functions :
                       /\ f < t
                       /\ cs[f].raised = None
                       /\ cs[t].request.lambdaArn =
                              <<"arn:aws:lambda:">> \o cs[f].request.FunctionName
            /\ \A g \in grants :
                   /\ \E t \in targets : t < g /\ cs[t].raised = None
                   /\ \E f \in functions :
                          cs[g].request.FunctionName = cs[f].request.FunctionName
            /\ tool_runs[k].listed = "created" =>
                   Succeeded(functions) /\ Succeeded(targets)

\* a batch with an element that went through the three steps and an element
\* whose target registration failed after its function was created
C27_Witness ==
    /\ BatchRan
    /\ \E k \in DOMAIN tool_runs :
           /\ tool_runs[k].listed = "created"
           /\ CallsOf(k, {"add_permission"}) # {}
    /\ \E k \in DOMAIN tool_runs :
           /\ tool_runs[k].listed = "failed"
           /\ \E t \in CallsOf(k, {"create_gateway_target"}) :
                  tool_runs[k].calls[t].raised # None

(***************************************************************************)
(* The code generator                                                      *)
(***************************************************************************)
\* C22: an exception thrown by the logic of the fragment when the unit is
\* invoked is caught inside the unit and turned into the failure result with
\* status code 500, for a logic-only fragment and for a fragment that defines
\* a complete entry point alike; it never leaves the entry point.
C22_FragmentExceptionCaught ==
    invocation.line > 0 => invocation.result = "status_500"

\* the line begins with the tokens of the word
LineBegins(line, word) ==
    Len(line) >= Len(word) /\ SubSeq(line, 1, Len(word)) = word

\* an import statement: a line whose first word is import or from
IsImport(line) ==
    LET s == StripLine(line)
    IN  s # <<>> /\ s[1] \in {"import", "from"}

\* C23: no generated unit holds the same import statement on two lines,
\* whatever imports the fragment carried and whether or not the block of
\* line 159 is put before a complete handler.
C23_NoDuplicateImport ==
    lambda_code # None =>
        \A i, j \in 1..Len(lambda_code) :
            /\ IsImport(lambda_code[i])
            /\ StripLine(lambda_code[i]) = StripLine(lambda_code[j])
            => i = j

\* the fragment is logic-only
LogicOnly(text) ==
    LET handler_code == StripText(text)
    IN  ~ Mentions(handler_code, DefHandler) /\ ~ Mentions(handler_code, DefLambdaHandler)

\* the numeric fields a line assigns from parameters.get of the same name
AssignedFields(line) ==
    {f \in 1..Len(NumericFields) :
        \E i \in 1..Len(line) : MatchEnd(line, i, NumericFields[f]) > 0}

\* the line holds the lookup of the field inside Decimal(str( ))
Wrapped(line, field) ==
    \E i \in 1..Len(line) :
        /\ i + 8 <= Len(line)
        /\ line[i] \in Quotes /\ line[i + 1] = field /\ line[i + 2] = line[i]
        /\ line[i + 3] = ":" /\ line[i + 4] = " "
        /\ line[i + 5] = "Decimal(str("
        /\ line[i + 6] = "parameters.get("
        /\ line[i + 7] \in Quotes /\ line[i + 8] = field
        /\ \E j \in (i + 9)..Len(line) : line[j] = ")))"

\* the imports of the unit: its lines before the entry point
ImportList(code) ==
    {code[k] : k \in {h \in 1..Len(code) :
        \A m \in 1..h : ~ LineBegins(code[m], DefHandler)}}

\* C24: for a logic-only fragment with a put_item in which a numeric field is
\* assigned from parameters.get of the same name, with or without a default,
\* the unit holds that lookup inside Decimal(str( )), no such assignment is
\* left unwrapped, and the import list of the unit holds Decimal.
C24_NumericFieldsWrapped ==
    ( /\ lambda_code # None
      /\ LogicOnly(fragment)
      /\ Mentions(fragment, <<"put_item">>) )
    => \A k \in 1..Len(fragment) : \A f \in AssignedFields(fragment[k]) :
           /\ \E h \in 1..Len(lambda_code) : Wrapped(lambda_code[h], NumericFields[f])
           /\ \A h \in 1..Len(lambda_code) : f \notin AssignedFields(lambda_code[h])
           /\ <<"from", " ", "decimal", " ", "import", " ", "Decimal">>
                  \in ImportList(lambda_code)

\* a unit generated from a fragment that writes one field without a default
\* and one with a default
C24_Witness ==
    /\ lambda_code # None
    /\ fragment = <<PutAmount, PutPrice>>
    /\ \E h \in 1..Len(lambda_code) : Wrapped(lambda_code[h], "price")

\* C30: every unit that is packaged defines a function named handler at the
\* top level, the entry point the function is configured with (line 107), on
\* the logic-only path and for a fragment that defines lambda_handler alike.
C30_UnitDefinesHandler ==
    lambda_code # None =>
        LET unit == _create_lambda_package(lambda_code).code
        IN  \E k \in 1..Len(unit) :
                LineBegins(unit[k], <<"def", " ", "handler", "(">>)

====
